---- MODULE Spec2Model ----
(***************************************************************************)
(* Cable short-circuit sizing calculator (static/script_enhanced.js):      *)
(* the conductor and sheath form handlers, the sheath geometry resolver,   *)
(* the thermal helpers and the report download handlers.                   *)
(*                                                                         *)
(* JavaScript Numbers are modelled as decimal floating point values with   *)
(* five significant digits, NaN and the two infinities: every arithmetic   *)
(* operation rounds its result, as the IEEE doubles of the program do.     *)
(***************************************************************************)
EXTENDS Integers, Sequences, FiniteSets, TLC

(***************************************************************************)
(* Numbers                                                                 *)
(***************************************************************************)
Pow10Table == <<1, 10, 100, 1000, 10000, 100000, 1000000, 10000000, 100000000, 1000000000>>
Pow10(n) == Pow10Table[n + 1]

\* a finite number is m * 10^e with m = 0 or MantLo <= |m| < MantHi
MantLo == Pow10(4)
MantHi == Pow10(5)

\* the value of a singleton set: Only({e(x) : x \in {v}}) is e(v) with v
\* evaluated once, as an expression of the program is
Only(S) == CHOOSE x \in S : TRUE

Abs(n) == IF n < 0 THEN -n ELSE n
Sgn(n) == IF n < 0 THEN -1 ELSE IF n = 0 THEN 0 ELSE 1

Fin(m, e) == [k |-> "fin", m |-> m, e |-> e]
Zero == Fin(0, 0)
NaN == [k |-> "nan", m |-> 0, e |-> 0]
PosInf == [k |-> "inf", m |-> 1, e |-> 0]
NegInf == [k |-> "inf", m |-> -1, e |-> 0]
\* the JavaScript null a calculation returns for "no result"
null == [k |-> "null", m |-> 0, e |-> 0]
\* the text of an input that holds nothing, and of one that holds no number
EmptyText == [k |-> "empty", m |-> 0, e |-> 0]
JunkText == [k |-> "text", m |-> 0, e |-> 0]

\* the number of decimal digits of n > 0
NumDigits(n) ==
  IF n < 100000
  THEN (IF n < 100 THEN (IF n < 10 THEN 1 ELSE 2)
        ELSE IF n < 1000 THEN 3 ELSE IF n < 10000 THEN 4 ELSE 5)
  ELSE (IF n < 10000000 THEN (IF n < 1000000 THEN 6 ELSE 7)
        ELSE IF n < 100000000 THEN 8 ELSE IF n < 1000000000 THEN 9 ELSE 10)

\* the number n * 10^e, rounded to five significant digits (ties away from zero)
NormOf(n, e) ==
  IF n = 0 THEN Zero
  ELSE LET a == Abs(n)
           d == NumDigits(a)
       IN IF d <= 5
          THEN Fin(Sgn(n) * a * Pow10(5 - d), e - (5 - d))
          ELSE LET r == (a + Pow10(d - 5) \div 2) \div Pow10(d - 5)
               IN IF r = MantHi
                  THEN Fin(Sgn(n) * MantLo, e + (d - 5) + 1)
                  ELSE Fin(Sgn(n) * r, e + (d - 5))

Norm(n, e) == Only({NormOf(n1, e1) : n1 \in {n}, e1 \in {e}})

\* the decimal literal n * 10^-d
Dec(n, d) == Norm(n, -d)
Num(n) == Norm(n, 0)
One == Fin(10000, -4)

IsNaN(a) == a.k = "nan"
IsFin(a) == a.k = "fin"
IsInf(a) == a.k = "inf"
IsNull(a) == a.k = "null"

Neg(a) == Only({IF a1.k = "nan" THEN NaN ELSE [a1 EXCEPT !.m = -a1.m] : a1 \in {a}})

AddFin(a, b) ==
  IF a.m = 0 THEN b
  ELSE IF b.m = 0 THEN a
  ELSE LET hi == IF a.e >= b.e THEN a ELSE b
           lo == IF a.e >= b.e THEN b ELSE a
           d == hi.e - lo.e
       IN IF d <= 4 THEN Norm(hi.m * Pow10(d) + lo.m, lo.e)
          ELSE IF d <= 9
               THEN Norm(hi.m * MantLo
                         + Sgn(lo.m) * ((Abs(lo.m) + Pow10(d - 4) \div 2) \div Pow10(d - 4)),
                         hi.e - 4)
               ELSE hi

AddOf(a, b) ==
  IF IsNaN(a) \/ IsNaN(b) THEN NaN
  ELSE IF IsInf(a) /\ IsInf(b) THEN (IF a.m = b.m THEN a ELSE NaN)
  ELSE IF IsInf(a) THEN a
  ELSE IF IsInf(b) THEN b
  ELSE AddFin(a, b)

Add(a, b) == Only({AddOf(a1, b1) : a1 \in {a}, b1 \in {b}})
Sub(a, b) == Only({AddOf(a1, b1) : a1 \in {a}, b1 \in {Neg(b)}})

\* the sign of a - b for two numbers that are not NaN
CmpSignOf(a, b) ==
  IF IsInf(a) /\ IsInf(b) THEN Sgn(a.m - b.m)
  ELSE IF IsInf(a) THEN a.m
  ELSE IF IsInf(b) THEN -b.m
  ELSE Sgn(AddFin(a, Neg(b)).m)

\* 2 when a or b is NaN: every comparison with NaN is false
CmpSign(a, b) ==
  Only({IF IsNaN(a1) \/ IsNaN(b1) THEN 2 ELSE CmpSignOf(a1, b1) : a1 \in {a}, b1 \in {b}})

Lt(a, b) == CmpSign(a, b) = -1
Le(a, b) == CmpSign(a, b) \in {-1, 0}
Gt(a, b) == CmpSign(a, b) = 1
Ge(a, b) == CmpSign(a, b) \in {0, 1}
Eq(a, b) == CmpSign(a, b) = 0

MulFin(a, b) ==
  IF a.m = 0 \/ b.m = 0 THEN Zero
  ELSE LET ma == Abs(a.m)
           mb == Abs(b.m)
           h == mb \div 1000
           l == mb % 1000
           p == ma * h + (ma * l) \div 1000
       IN Norm(Sgn(a.m) * Sgn(b.m) * p, a.e + b.e + 3)

MulOf(a, b) ==
  IF IsNaN(a) \/ IsNaN(b) THEN NaN
  ELSE IF IsInf(a) \/ IsInf(b)
       THEN (IF a.m = 0 \/ b.m = 0 THEN NaN
             ELSE IF Sgn(a.m) * Sgn(b.m) > 0 THEN PosInf ELSE NegInf)
  ELSE MulFin(a, b)

Mul(a, b) == Only({MulOf(a1, b1) : a1 \in {a}, b1 \in {b}})

\* floor(r * 10^n / d) appended to the digits q
RECURSIVE LongDiv(_, _, _, _)
LongDiv(q, r, d, n) ==
  IF n = 0 THEN q
  ELSE Only({LongDiv(q1, r1, d, n - 1) : q1 \in {q * 10 + (r * 10) \div d},
                                         r1 \in {(r * 10) % d}})

DivFin(a, b) ==
  LET ma == Abs(a.m)
      mb == Abs(b.m)
      q == LongDiv(ma \div mb, ma % mb, mb, 6)
  IN Norm(Sgn(a.m) * Sgn(b.m) * q, a.e - b.e - 6)

DivOf(a, b) ==
  IF IsNaN(a) \/ IsNaN(b) THEN NaN
  ELSE IF IsInf(a) THEN (IF IsInf(b) THEN NaN
                         ELSE IF Sgn(a.m) * (IF b.m < 0 THEN -1 ELSE 1) > 0
                              THEN PosInf ELSE NegInf)
  ELSE IF IsInf(b) THEN Zero
  ELSE IF b.m = 0 THEN (IF a.m = 0 THEN NaN ELSE IF a.m > 0 THEN PosInf ELSE NegInf)
  ELSE IF a.m = 0 THEN Zero
  ELSE DivFin(a, b)

Div(a, b) == Only({DivOf(a1, b1) : a1 \in {a}, b1 \in {b}})

\* floor(sqrt(n)) by Newton's iteration from x >= sqrt(n)
RECURSIVE Isqrt(_, _)
Isqrt(n, x) ==
  Only({IF y >= x THEN x ELSE Isqrt(n, y) : y \in {(x + n \div x) \div 2}})

\* Math.sqrt: six digits of the root (a first guess of four or five digits, then
\* one Newton step), rounded to five
SqrtOf(a) ==
  IF IsNaN(a) THEN NaN
  ELSE IF IsInf(a) THEN (IF a.m > 0 THEN PosInf ELSE NaN)
  ELSE IF a.m < 0 THEN NaN
  ELSE IF a.m = 0 THEN Zero
  ELSE LET even == a.e % 2 = 0
           n == IF even THEN 6 ELSE 7
       IN Only({Norm((x0 + LongDiv(0, a.m, x0, n)) \div 2, (a.e - n) \div 2) :
                  x0 \in {IF even THEN 10 * Isqrt(a.m * 10000, 31623) + 5
                          ELSE 100 * Isqrt(a.m * 1000, 10000) + 50}})

Sqrt(a) == Only({SqrtOf(a1) : a1 \in {a}})

Ln2 == Fin(69315, -5)
Ln10 == Fin(23026, -4)

\* 2 * atanh((y - 1) / (y + 1)) for y near 1
LnSeries(z, z2) ==
  LET s4 == Fin(11111, -5)
      s3 == Add(Fin(14286, -5), Mul(z2, s4))
      s2 == Add(Fin(20000, -5), Mul(z2, s3))
      s1 == Add(Fin(33333, -5), Mul(z2, s2))
      s0 == Add(One, Mul(z2, s1))
  IN Mul(Fin(20000, -4), Mul(z, s0))

LnNearOne(y) ==
  Only({Only({LnSeries(z, z2) : z2 \in {Mul(z, z)}}) : z \in {Div(Sub(y, One), Add(y, One))}})

LnReduced(p, j, y1) ==
  LET y2 == IF j = 1 THEN Div(y1, Fin(20000, -4))
            ELSE IF j = -1 THEN Mul(y1, Fin(20000, -4)) ELSE y1
  IN Add(Add(Mul(Num(p), Ln10), Mul(Num(j), Ln2)), LnNearOne(y2))

LnFin(a) ==
  LET big == a.m > 31623
      y1 == Fin(a.m, IF big THEN -5 ELSE -4)
      p == IF big THEN a.e + 5 ELSE a.e + 4
  IN Only({LnReduced(p, j, y1) :
             j \in {IF Gt(y1, Fin(14142, -4)) THEN 1
                    ELSE IF Lt(y1, Fin(70711, -5)) THEN -1 ELSE 0}})

LnOf(a) ==
  IF IsNaN(a) THEN NaN
  ELSE IF IsInf(a) THEN (IF a.m > 0 THEN PosInf ELSE NaN)
  ELSE IF a.m < 0 THEN NaN
  ELSE IF a.m = 0 THEN NegInf
  ELSE LnFin(a)

Ln(a) == Only({LnOf(a1) : a1 \in {a}})

\* Number.prototype.toFixed(d): the text of a rounded to d decimals
ToFixedOf(a, d) ==
  IF ~IsFin(a) THEN a
  ELSE IF a.e >= -d THEN a
  ELSE LET n == -d - a.e
       IN IF n > 9 THEN Zero
          ELSE Norm(Sgn(a.m) * ((Abs(a.m) + Pow10(n) \div 2) \div Pow10(n)), -d)

ToFixed(a, d) == Only({ToFixedOf(a1, d) : a1 \in {a}})

\* parseFloat of an input's text
parseFloat(t) == Only({IF t1.k \in {"empty", "text", "null"} THEN NaN ELSE t1 : t1 \in {t}})

(***************************************************************************)
(* Constant tables                                                         *)
(***************************************************************************)
\* TABLE_I_SHEATHS: undefined for a name that is no key
SheathNames == {"lead", "steel", "bronze", "aluminium"}
TABLE_I_SHEATHS(name) ==
  CASE name = "lead" ->
         \* K: 41, beta: 230, sigmaC: 1.45e6
         [K |-> Fin(41000, -3), beta |-> Fin(23000, -2), sigmaC |-> Fin(14500, 2)]
    [] name = "steel" ->
         \* K: 78, beta: 202, sigmaC: 3.8e6
         [K |-> Fin(78000, -3), beta |-> Fin(20200, -2), sigmaC |-> Fin(38000, 2)]
    [] name = "bronze" ->
         \* K: 180, beta: 313, sigmaC: 3.4e6
         [K |-> Fin(18000, -2), beta |-> Fin(31300, -2), sigmaC |-> Fin(34000, 2)]
    [] name = "aluminium" ->
         \* K: 148, beta: 228, sigmaC: 2.5e6
         [K |-> Fin(14800, -2), beta |-> Fin(22800, -2), sigmaC |-> Fin(25000, 2)]

\* THERMAL_CONSTANTS: an entry is plain (rho, sigma) or tiered by voltage
InsulatingNames ==
  {"impregnated-paper-solid", "impregnated-paper-oil-filled", "oil", "PE", "XLPE",
   "PVC", "EPR", "butyl-rubber", "natural-rubber"}
ProtectiveNames ==
  {"compounded-jute", "rubber-sandwich", "polychloroprene", "PVC", "PVC-bitumen", "PE"}
\* rho in tenths, sigma in 1e5: Thermal(35, 24) is {rho: 3.5, sigma: 2.4e6}
Thermal(rho, sigma) ==
  [rho |-> Fin(IF rho < 10 THEN rho * 10000 ELSE rho * 1000, IF rho < 10 THEN -5 ELSE -4),
   sigma |-> Fin(IF sigma < 10 THEN sigma * 10000 ELSE sigma * 1000,
                 IF sigma < 10 THEN 1 ELSE 2)]
THERMAL_CONSTANTS(materialType, name, tier) ==
  IF materialType = "insulating"
  THEN CASE name = "impregnated-paper-solid" -> Thermal(60, 20)
         [] name = "impregnated-paper-oil-filled" -> Thermal(50, 20)
         [] name = "oil" -> Thermal(70, 17)
         [] name = "PE" -> Thermal(35, 24)
         [] name = "XLPE" -> Thermal(35, 24)
         [] name = "PVC" -> (IF tier = "low" THEN Thermal(50, 17) ELSE Thermal(60, 17))
         [] name = "EPR" -> (IF tier = "low" THEN Thermal(35, 20) ELSE Thermal(50, 20))
         [] name = "butyl-rubber" -> Thermal(50, 20)
         [] name = "natural-rubber" -> Thermal(50, 20)
  ELSE CASE name = "compounded-jute" -> Thermal(60, 20)
         [] name = "rubber-sandwich" -> Thermal(60, 20)
         [] name = "polychloroprene" -> Thermal(55, 20)
         [] name = "PVC" -> (IF tier = "low" THEN Thermal(50, 17) ELSE Thermal(60, 17))
         [] name = "PVC-bitumen" -> Thermal(60, 17)
         [] name = "PE" -> Thermal(35, 24)

\* THERMAL_CONTACT_FACTOR
THERMAL_CONTACT_FACTOR(key) == IF key = "oil-filled" THEN One ELSE Fin(70000, -5)

(***************************************************************************)
(* Notifications and validation                                            *)
(***************************************************************************)
Note(message, type) == [message |-> message, type |-> type]

\* a validation whose upper limits are exclusive
validateVoltageTimeExclusive(voltageKv, t) ==
  IF Le(voltageKv, Zero) \/ Le(t, Zero) \/ Ge(voltageKv, Num(400)) \/ Ge(t, Num(10))
  THEN [ret |-> FALSE, notes |-> <<Note("Voltage and time must be positive.", "error")>>]
  ELSE [ret |-> TRUE, notes |-> <<>>]

\* validateVoltageTime: ret is the value returned, notes what showNotification got
validateVoltageTime(voltageKv, t) ==
  IF Le(voltageKv, Zero) \/ Le(t, Zero)
  THEN [ret |-> FALSE, notes |-> <<Note("Voltage and time must be positive.", "error")>>]
  ELSE IF Gt(voltageKv, Num(400))
  THEN [ret |-> FALSE,
        notes |-> <<Note("Voltage must not be greater than 400 kV.", "error")>>]
  ELSE IF Gt(t, Num(10))
  THEN [ret |-> FALSE,
        notes |-> <<Note("Time must not be greater than 10 seconds.", "error")>>]
  ELSE [ret |-> TRUE, notes |-> <<>>]

(***************************************************************************)
(* Step 2: conductor calculation.  f is the form: the text of every input. *)
(***************************************************************************)
Returns(ret, notes) == [ret |-> ret, notes |-> notes]

\* ln((theta_f + beta) / (theta_i + beta))
LnTerm(theta_i, theta_f, beta) == Ln(Div(Add(theta_f, beta), Add(theta_i, beta)))

calculateConductorAreaFromCurrent(f) ==
  LET voltageKv == parseFloat(f.voltageKv)
      I_AD_kA == parseFloat(f.sccKa)
      t == parseFloat(f.timeSec)
      K == parseFloat(f.kValue)
      beta == parseFloat(f.beta)
      theta_i == Num(90)
      theta_f == Num(250)
      vt == validateVoltageTime(voltageKv, t)
      I_AD_A == Mul(I_AD_kA, Num(1000))
  IN IF \E v \in {voltageKv, I_AD_kA, t, K, beta} : IsNaN(v)
     THEN Returns(null, <<Note("Please fill all conductor inputs.", "warning")>>)
     ELSE IF ~vt.ret THEN Returns(null, vt.notes)
     ELSE IF Le(I_AD_kA, Zero) \/ Le(K, Zero)
     THEN Returns(null, <<Note("Current and K must be positive.", "error")>>)
     ELSE Only({
       IF Le(lnTerm, Zero)
       THEN Returns(null, <<Note("Invalid temperature / beta combination.", "error")>>)
       ELSE Only({
         IF Le(S_sq, Zero)
         THEN Returns(null, <<Note("Calculated conductor area is not valid.", "error")>>)
         ELSE Returns(Sqrt(S_sq), <<>>) :
         S_sq \in {Div(Mul(Mul(I_AD_A, I_AD_A), t), Mul(Mul(K, K), lnTerm))}}) :
       lnTerm \in {LnTerm(theta_i, theta_f, beta)}})

\* a current that would leave out the square root: K * S * (lnTerm / t)
calculateConductorCurrentFromAreaNoRoot(f) ==
  LET t == parseFloat(f.timeSec)
      K == parseFloat(f.kValue)
      beta == parseFloat(f.beta)
      S_given == parseFloat(f.givenConductorArea)
  IN Only({
       IF IsNaN(S_given) \/ Le(lnTerm, Zero)
       THEN Returns(null, <<Note("Invalid temperature / beta combination.", "error")>>)
       ELSE Returns(Div(Mul(Mul(K, S_given), Div(lnTerm, t)), Num(1000)), <<>>) :
       lnTerm \in {LnTerm(Num(90), Num(250), beta)}})

calculateConductorCurrentFromArea(f) ==
  LET t == parseFloat(f.timeSec)
      K == parseFloat(f.kValue)
      beta == parseFloat(f.beta)
      theta_i == Num(90)
      theta_f == Num(250)
      S_given == parseFloat(f.givenConductorArea)
  IN IF \E v \in {t, K, beta, S_given} : IsNaN(v)
     THEN Returns(null, <<Note("Please fill time, K, beta and given area.", "warning")>>)
     ELSE IF Le(t, Zero)
     THEN Returns(null, <<Note("Time must be positive.", "error")>>)
     ELSE IF Le(S_given, Zero) \/ Le(K, Zero)
     THEN Returns(null, <<Note("Area and K must be positive.", "error")>>)
     ELSE Only({
       IF Le(lnTerm, Zero)
       THEN Returns(null, <<Note("Invalid temperature / beta combination.", "error")>>)
       ELSE Returns(Div(Mul(Mul(K, S_given), Sqrt(Div(lnTerm, t))), Num(1000)), <<>>) :
       lnTerm \in {LnTerm(theta_i, theta_f, beta)}})

\* what a submit handler leaves behind: the stage's bundle and flag, the
\* notifications it raised and the result box
Outcome(data, calculated, notes, shown) ==
  [data |-> data, calculated |-> calculated, notes |-> notes, shown |-> shown]

\* a return that would also drop the bundle and the flag
ResettingReturn(data, calculated, notes, shown) == Outcome(null, FALSE, notes, shown)

\* a handler's bare "return;": the bundle, the flag and the result box stay as
\* they were
EarlyReturn(data, calculated, notes, shown) == Outcome(data, calculated, notes, shown)

\* given > required
IsStrictlyLarger(given, required) == Gt(given, required)

\* the test of a verdict: given >= required
IsSufficient(given, required) == Ge(given, required)

\* a bundle that would take its voltage from the sheath stage's input
ConductorBundleOfSheathVoltage(f, area, i_ad) ==
  [voltage |-> parseFloat(f.sheathVoltageKv),
   area |-> area,
   material |-> f.material,
   insulation |-> f.insulationMaterial,
   outer_sheath |-> f.outerSheathMaterial,
   scc_required |-> parseFloat(f.sccKa),
   time |-> parseFloat(f.timeSec),
   theta_i |-> Num(90),
   theta_f |-> Num(250),
   beta |-> parseFloat(f.beta),
   k_value |-> parseFloat(f.kValue),
   i_ad |-> ToFixed(i_ad, 3)]

\* the object literal stored in conductorData
ConductorBundle(f, area, i_ad) ==
  [voltage |-> parseFloat(f.voltageKv),
   area |-> area,
   material |-> f.material,
   insulation |-> f.insulationMaterial,
   outer_sheath |-> f.outerSheathMaterial,
   scc_required |-> parseFloat(f.sccKa),
   time |-> parseFloat(f.timeSec),
   theta_i |-> Num(90),
   theta_f |-> Num(250),
   beta |-> parseFloat(f.beta),
   k_value |-> parseFloat(f.kValue),
   i_ad |-> ToFixed(i_ad, 3)]

\* the html handed to showResult by the conductor handler
ConductorHtml(quantity, value, verdict) ==
  [stage |-> "conductor", quantity |-> quantity, value |-> ToFixed(value, 2),
   verdict |-> verdict]

\* conductorForm submit handler; data, calculated and shown are conductorData,
\* conductorCalculated and the result box before the submission
conductorFormSubmit(f, data, calculated, shown) ==
  LET mode == f.conductorMode
      S_given_str == f.givenConductorArea
      t == parseFloat(f.timeSec)
      K == parseFloat(f.kValue)
      beta == parseFloat(f.beta)
      theta_i == Num(90)
      theta_f == Num(250)
      \* the branch of area-from-current once S_required is there
      AreaFromCurrent(S_required, S_given) ==
        LET pass == IsSufficient(S_given, S_required)
            verdict == IF S_given_str = EmptyText THEN "none"
                       ELSE IF pass THEN "sufficient" ELSE "undersized"
            notes == IF S_given_str = EmptyText THEN <<>>
                     ELSE IF pass
                     THEN <<Note("Conductor calculation passed!", "success")>>
                     ELSE <<Note("Cable undersized - check results!", "warning")>>
            lnTerm == LnTerm(theta_i, theta_f, beta)
            I_AD_A == Mul(Mul(K, S_given), Sqrt(Div(lnTerm, t)))
            I_AD_calculated == Div(I_AD_A, Num(1000))
        IN IF S_given_str # EmptyText /\ (IsNaN(S_given) \/ Le(S_given, Zero))
           THEN EarlyReturn(data, calculated,
                            <<Note("Given conductor area must be positive.", "error")>>,
                            shown)
           ELSE Outcome(ConductorBundle(f, S_given, I_AD_calculated), TRUE, notes,
                        ConductorHtml("area", S_required, verdict))
  IN IF mode = "area-from-current"
     THEN Only({
       IF IsNull(r.ret) THEN EarlyReturn(data, calculated, r.notes, shown)
       ELSE AreaFromCurrent(r.ret, IF S_given_str # EmptyText THEN parseFloat(S_given_str)
                                   ELSE r.ret) :
       r \in {calculateConductorAreaFromCurrent(f)}})
     ELSE Only({
       IF IsNull(r.ret) THEN EarlyReturn(data, calculated, r.notes, shown)
       ELSE Outcome(ConductorBundle(f, parseFloat(S_given_str), r.ret), TRUE,
                    <<Note("Conductor calculation complete!", "success")>>,
                    ConductorHtml("current", r.ret, "none")) :
       r \in {calculateConductorCurrentFromArea(f)}})

(***************************************************************************)
(* Step 3: sheath geometry                                                 *)
(***************************************************************************)
MathPI == Dec(31416, 4)

\* a resolver that would write zeros where the code clears the derived fields
updateSheathGeometryZeroing(f) ==
  LET Do == parseFloat(f.sheathOuterD)
      Di == parseFloat(f.sheathInnerD)
  IN IF ~IsNaN(Do) /\ ~IsNaN(Di) /\ Gt(Do, Di) /\ Gt(Di, Zero)
     THEN [f EXCEPT !.sheathThickness = ToFixed(Div(Sub(Do, Di), Num(2)), 3),
                    !.sheathAreaGiven =
                      ToFixed(Mul(Div(MathPI, Num(4)), Sub(Mul(Do, Do), Mul(Di, Di))), 2),
                    !.borderOuterD = "", !.borderInnerD = ""]
     ELSE [f EXCEPT !.sheathThickness = ToFixed(Zero, 3),
                    !.sheathAreaGiven = ToFixed(Zero, 2),
                    !.borderOuterD = "", !.borderInnerD = ""]

\* a resolver that would flag the two inputs whenever it clears the derived
\* fields
updateSheathGeometryFlagging(f) ==
  LET Do == parseFloat(f.sheathOuterD)
      Di == parseFloat(f.sheathInnerD)
  IN IF ~IsNaN(Do) /\ ~IsNaN(Di) /\ Gt(Do, Di) /\ Gt(Di, Zero)
     THEN [f EXCEPT !.sheathThickness = ToFixed(Div(Sub(Do, Di), Num(2)), 3),
                    !.sheathAreaGiven =
                      ToFixed(Mul(Div(MathPI, Num(4)), Sub(Mul(Do, Do), Mul(Di, Di))), 2),
                    !.borderOuterD = "", !.borderInnerD = ""]
     ELSE [f EXCEPT !.sheathThickness = EmptyText,
                    !.sheathAreaGiven = EmptyText,
                    !.borderOuterD = "red", !.borderInnerD = "red"]

\* updateSheathGeometry: the form it leaves (derived fields and border colours)
updateSheathGeometry(f) ==
  LET Do == parseFloat(f.sheathOuterD)
      Di == parseFloat(f.sheathInnerD)
      delta == Div(Sub(Do, Di), Num(2))
      area == Mul(Div(MathPI, Num(4)), Sub(Mul(Do, Do), Mul(Di, Di)))
  IN IF ~IsNaN(Do) /\ ~IsNaN(Di) /\ Gt(Do, Zero) /\ Gt(Di, Zero)
     THEN IF Gt(Do, Di)
          THEN [f EXCEPT !.sheathThickness = ToFixed(delta, 3),
                         !.sheathAreaGiven = ToFixed(area, 2),
                         !.borderOuterD = "", !.borderInnerD = ""]
          ELSE [f EXCEPT !.sheathThickness = EmptyText,
                         !.sheathAreaGiven = EmptyText,
                         !.borderOuterD = "red", !.borderInnerD = "red"]
     ELSE [f EXCEPT !.sheathThickness = EmptyText,
                    !.sheathAreaGiven = EmptyText,
                    !.borderOuterD = "", !.borderInnerD = ""]

(***************************************************************************)
(* Sheath thermal helpers                                                  *)
(***************************************************************************)
\* a selection that would put 3 kV and 35 kV in the upper tiers
getThermalConstantsStrict(materialType, materialName, voltageKv) ==
  IF materialType \notin {"insulating", "protective"} THEN null
  ELSE IF materialType = "insulating" /\ materialName \notin InsulatingNames THEN null
  ELSE IF materialType = "protective" /\ materialName \notin ProtectiveNames THEN null
  ELSE THERMAL_CONSTANTS(materialType, materialName,
         IF materialType = "insulating" /\ materialName \in {"PVC", "EPR"}
         THEN (IF Lt(voltageKv, Num(3)) THEN "low" ELSE "high")
         ELSE IF materialType = "protective" /\ materialName = "PVC"
         THEN (IF Lt(voltageKv, Num(35)) THEN "low" ELSE "high")
         ELSE "none")

getThermalConstants(materialType, materialName, voltageKv) ==
  IF materialType \notin {"insulating", "protective"} THEN null
  ELSE IF materialType = "insulating" /\ materialName \notin InsulatingNames THEN null
  ELSE IF materialType = "protective" /\ materialName \notin ProtectiveNames THEN null
  ELSE THERMAL_CONSTANTS(materialType, materialName,
         IF materialType = "insulating" /\ materialName \in {"PVC", "EPR"}
         THEN (IF Le(voltageKv, Num(3)) THEN "low" ELSE "high")
         ELSE IF materialType = "protective" /\ materialName = "PVC"
         THEN (IF Le(voltageKv, Num(35)) THEN "low" ELSE "high")
         ELSE "none")

calculateM(insulationMaterial, outerSheathMaterial, sheathThickness, sheathMaterial, voltageKv, isOilFilled) ==
  LET sigma1 == TABLE_I_SHEATHS(sheathMaterial).sigmaC
      delta == sheathThickness
      F == IF isOilFilled = "yes" THEN THERMAL_CONTACT_FACTOR("oil-filled")
           ELSE THERMAL_CONTACT_FACTOR("default")
      Factor(sigma2, rho2, sigma3, rho3) ==
        Only({IF Eq(denominator, Zero) THEN null
              ELSE Mul(Div(Add(Sqrt(Div(sigma2, rho2)), Sqrt(Div(sigma3, rho3))),
                           denominator), F) :
              denominator \in {Mul(Mul(Mul(Num(2), sigma1), delta), Dec(1, 3))}})
  IN Only({IF insulation = null \/ outerSheath = null THEN null
           ELSE IF sheathMaterial \notin SheathNames THEN null
           ELSE Factor(insulation.sigma, insulation.rho, outerSheath.sigma, outerSheath.rho) :
           insulation \in {getThermalConstants("insulating", insulationMaterial, voltageKv)},
           outerSheath \in {getThermalConstants("protective", outerSheathMaterial,
                                                voltageKv)}})

calculateEpsilon(M, t) ==
  IF IsNull(M) \/ IsNaN(t) \/ Le(t, Zero) THEN null
  ELSE Only({
    Add(Sub(Add(One, Mul(Dec(61, 2), MsqrtT)), Mul(Dec(69, 3), Mul(MsqrtT, MsqrtT))),
        Mul(Dec(43, 4), Mul(Mul(MsqrtT, MsqrtT), MsqrtT))) :
    MsqrtT \in {Mul(M, Sqrt(t))}})

\* the adiabatic area without the tests of lnTerm and s_sq
calculateSheathAdiabaticAreaUnchecked(I_AD_kA, t, sheathMaterial, theta_i, theta_f) ==
  IF sheathMaterial \notin SheathNames THEN null
  ELSE LET mat == TABLE_I_SHEATHS(sheathMaterial)
           lnTerm == LnTerm(theta_i, theta_f, mat.beta)
           I_AD_A == Mul(I_AD_kA, Num(1000))
       IN Sqrt(Div(Mul(Mul(I_AD_A, I_AD_A), t), Mul(Mul(mat.K, mat.K), lnTerm)))

calculateSheathAdiabaticArea(I_AD_kA, t, sheathMaterial, theta_i, theta_f) ==
  IF sheathMaterial \notin SheathNames THEN null
  ELSE LET mat == TABLE_I_SHEATHS(sheathMaterial)
           K == mat.K
           beta == mat.beta
           I_AD_A == Mul(I_AD_kA, Num(1000))
       IN Only({
            IF Le(lnTerm, Zero) THEN null
            ELSE Only({
              IF Le(s_sq, Zero) THEN null ELSE Sqrt(s_sq) :
              s_sq \in {Div(Mul(Mul(I_AD_A, I_AD_A), t), Mul(Mul(K, K), lnTerm))}}) :
            lnTerm \in {LnTerm(theta_i, theta_f, beta)}})

(***************************************************************************)
(* Sheath form submit                                                      *)
(***************************************************************************)
\* String.prototype.toLowerCase on the option texts a sheath select can hold
toLowerCase(str) ==
  CASE str = "Lead" -> "lead"
    [] str = "Steel" -> "steel"
    [] str = "Bronze" -> "bronze"
    [] str = "Aluminium" -> "aluminium"
    [] str = "Gold" -> "gold"
    [] OTHER -> str

\* str.charAt(0).toUpperCase() + str.slice(1) on lower-case names
Capitalized(str) ==
  CASE str = "lead" -> "Lead"
    [] str = "steel" -> "Steel"
    [] str = "bronze" -> "Bronze"
    [] str = "aluminium" -> "Aluminium"
    [] str = "gold" -> "Gold"
    [] OTHER -> str

\* parseFloat(text) || 0
OrZero(a) == IF IsNaN(a) \/ Eq(a, Zero) THEN Zero ELSE a

\* the object literal stored in sheathData
SheathBundle(f, sheathMaterial, s_adiab, M, epsilon, i_non_ad, insulation, outerSheath, sheath) ==
  [voltage |-> parseFloat(f.sheathVoltageKv),
   conductor_area |-> OrZero(parseFloat(f.givenConductorArea)),
   material |-> f.material,
   sheath_material |-> Capitalized(sheathMaterial),
   insulation |-> f.insulationMaterial,
   outer_sheath |-> f.outerSheathMaterial,
   thickness |-> ToFixed(parseFloat(f.sheathThickness), 3),
   inner_d |-> ToFixed(parseFloat(f.sheathInnerD), 2),
   outer_d |-> ToFixed(parseFloat(f.sheathOuterD), 2),
   sheath_area |-> ToFixed(parseFloat(f.sheathAreaGiven), 2),
   scc_required |-> parseFloat(f.sheathSccKa),
   time |-> parseFloat(f.sheathTimeSec),
   theta_i |-> parseFloat(f.sheathThetaInitial),
   theta_f |-> parseFloat(f.sheathThetaFinal),
   beta |-> IF sheath # null THEN sheath.beta ELSE Num(228),
   k_value |-> IF sheath # null THEN sheath.K ELSE Num(148),
   i_ad |-> ToFixed(s_adiab, 3),
   sigma1 |-> IF sheath # null THEN sheath.sigmaC ELSE Norm(25, 5),
   sigma2 |-> IF insulation # null THEN insulation.sigma ELSE Norm(24, 5),
   sigma3 |-> IF outerSheath # null THEN outerSheath.sigma ELSE Norm(24, 5),
   rho2 |-> IF insulation # null THEN insulation.rho ELSE Dec(35, 1),
   rho3 |-> IF outerSheath # null THEN outerSheath.rho ELSE Dec(35, 1),
   f_factor |-> Dec(7, 1),
   m_factor |-> ToFixed(M, 3),
   epsilon |-> ToFixed(epsilon, 3),
   i_non_ad |-> ToFixed(i_non_ad, 3)]

\* the html handed to showResult by the sheath handler
SheathHtml(s_adiab, epsilon, s_required, s_given, verdict) ==
  [stage |-> "sheath", s_adiab |-> ToFixed(s_adiab, 2), epsilon |-> ToFixed(epsilon, 3),
   s_required |-> ToFixed(s_required, 2), s_given |-> ToFixed(s_given, 2),
   verdict |-> verdict]

\* sheathForm submit handler; data, calculated and shown are sheathData,
\* sheathCalculated and the result box before the submission
sheathFormSubmit(f, data, calculated, shown) ==
  LET sheathMaterial == toLowerCase(f.sheathMaterial)
      voltageKv == parseFloat(f.sheathVoltageKv)
      I_AD_kA == parseFloat(f.sheathSccKa)
      t == parseFloat(f.sheathTimeSec)
      insulationMaterial == f.insulationMaterial
      outerSheathMaterial == f.outerSheathMaterial
      theta_i == parseFloat(f.sheathThetaInitial)
      theta_f == parseFloat(f.sheathThetaFinal)
      Do == parseFloat(f.sheathOuterD)
      Di == parseFloat(f.sheathInnerD)
      sheathThickness == parseFloat(f.sheathThickness)
      s_given == parseFloat(f.sheathAreaGiven)
      isOilFilled == "no"
      vt == validateVoltageTime(voltageKv, t)
      Abort(message, type) == EarlyReturn(data, calculated, <<Note(message, type)>>, shown)
      \* the verdict and the bundle once the three factors are there
      Verdict(s_adiab, M, epsilon, s_required, pass) ==
        Outcome(Only({SheathBundle(f, sheathMaterial, s_adiab, M, epsilon,
                                   Mul(epsilon, s_adiab), insulation, outerSheath, sheath) :
                        insulation \in {getThermalConstants("insulating",
                                                            insulationMaterial, voltageKv)},
                        outerSheath \in {getThermalConstants("protective",
                                                             outerSheathMaterial, voltageKv)},
                        sheath \in {IF sheathMaterial \in SheathNames
                                    THEN TABLE_I_SHEATHS(sheathMaterial) ELSE null}}),
                TRUE,
                IF pass THEN <<Note("Sheath calculation passed!", "success")>>
                ELSE <<Note("Sheath undersized - check results!", "warning")>>,
                SheathHtml(s_adiab, epsilon, s_required, s_given,
                           IF pass THEN "sufficient" ELSE "undersized"))
      WithEpsilon(s_adiab, M, epsilon) ==
        IF IsNull(epsilon) THEN Abort("Could not calculate epsilon factor.", "error")
        ELSE Only({Only({Verdict(s_adiab, M, epsilon, s_required, pass) :
                           pass \in {IsSufficient(s_given, s_required)}}) :
                     s_required \in {Mul(s_adiab, epsilon)}})
      WithM(s_adiab, M) ==
        IF IsNull(M) THEN Abort("Could not calculate M factor.", "error")
        ELSE Only({WithEpsilon(s_adiab, M, epsilon) : epsilon \in {calculateEpsilon(M, t)}})
      WithAdiabaticArea(s_adiab) ==
        IF IsNull(s_adiab) THEN Abort("Could not calculate adiabatic sheath area.", "error")
        ELSE Only({WithM(s_adiab, M) :
                     M \in {calculateM(insulationMaterial, outerSheathMaterial,
                                       sheathThickness, sheathMaterial, voltageKv,
                                       isOilFilled)}})
  IN IF sheathMaterial = ""
        \/ (\E v \in {voltageKv, I_AD_kA, t, theta_i, theta_f, Do, Di, sheathThickness,
                      s_given} : IsNaN(v))
        \/ insulationMaterial = "" \/ outerSheathMaterial = ""
     THEN Abort("Please fill all sheath inputs.", "warning")
     ELSE IF ~vt.ret THEN EarlyReturn(data, calculated, vt.notes, shown)
     ELSE IF Le(I_AD_kA, Zero)
     THEN Abort("Short-circuit current must be positive.", "error")
     ELSE IF ~(Gt(Do, Di) /\ Gt(Do, Zero) /\ Gt(Di, Zero))
     THEN Abort("Outer diameter must be greater than inner diameter.", "error")
     ELSE Only({WithAdiabaticArea(s_adiab) :
                  s_adiab \in {calculateSheathAdiabaticArea(I_AD_kA, t, sheathMaterial,
                                                            theta_i, theta_f)}})

(***************************************************************************)
(* Step 1: extraction.  A chosen file is identified with the data the       *)
(* extraction service reads from it; an absent field of the data is null,   *)
(* an absent name is "".                                                    *)
(***************************************************************************)
\* pdfInput.files[0] when no file is chosen
NoFile == [name |-> "none"]

\* what an if takes as true: not null, not "", not NaN, not 0
Truthy(v) == ~(v.k \in {"null", "empty", "nan"}) /\ ~(v.k = "fin" /\ v.m = 0)

\* isNaN of a value of the response: NaN itself, or a text that is no number
isNaN(v) == v.k \in {"nan", "text"}

\* the text an input takes when it is assigned a value
String(v) == IF v.k = "nan" THEN JunkText ELSE v

setValue(f, id, value) ==
  Only({IF IsNull(value) THEN g ELSE [g EXCEPT ![id] = String(value)] : g \in {f}})

\* the voltage the extraction handler writes
finalVoltage(data) ==
  IF (IsNull(data.voltageKv) \/ isNaN(data.voltageKv)) /\ Len(data.ratedVoltages) > 0
  THEN data.ratedVoltages[Len(data.ratedVoltages)]
  ELSE data.voltageKv

\* populateRatedVoltages: the options of the rated-voltage select and the one
\* selected
populateRatedVoltages(f, list, headerVoltage) ==
  [f EXCEPT !.ratedVoltageOptions = list,
            !.ratedVoltageSelect =
              IF ~IsNull(headerVoltage) /\ (\E i \in 1 .. Len(list) : list[i] = headerVoltage)
              THEN String(headerVoltage) ELSE EmptyText]

\* if (value) setValue(id, value)
setValueIfFound(f, id, value) ==
  Only({IF Truthy(value) THEN setValue(g, id, value) ELSE g : g \in {f}})

\* if (name) select.value = name
selectIfFound(f, id, name) ==
  Only({IF name # "" THEN [g EXCEPT ![id] = name] ELSE g : g \in {f}})

\* the two current inputs: filled, or emptied and given a red border
fillCurrent(f, sccKa) ==
  Only({IF Truthy(sccKa)
        THEN [setValue(setValue(g, "sccKa", sccKa), "sheathSccKa", sccKa)
                EXCEPT !.borderSccKa = "", !.borderSheathSccKa = ""]
        ELSE [g EXCEPT !.sccKa = EmptyText, !.sheathSccKa = EmptyText,
                       !.borderSccKa = "#ef4444", !.borderSheathSccKa = "#ef4444"] :
        g \in {f}})

\* if (data.sheathOuterD && data.sheathInnerD) updateSheathGeometry()
resolveIfBothFound(f, outerD, innerD) ==
  Only({IF Truthy(outerD) /\ Truthy(innerD) THEN updateSheathGeometry(g) ELSE g : g \in {f}})

\* btnExtract click handler after an OK response: the form it leaves and the
\* notifications it raises
btnExtractFill(f, data) ==
  LET voltage == finalVoltage(data)
      time == IF IsNull(data.timeSec) THEN Num(1) ELSE data.timeSec
      condMat == IF data.conductorMaterial # "" THEN data.conductorMaterial
                 ELSE data.material
      sheathMat == IF data.sheathMaterial # "" THEN data.sheathMaterial
                   ELSE IF condMat # "" THEN "aluminium" ELSE ""
      f1 == fillCurrent(setValue(f, "voltageKv", voltage), data.sccKa)
      f2 == setValue(setValue(setValue(f1, "timeSec", time), "sheathVoltageKv", voltage),
                     "sheathTimeSec", time)
      f3 == setValueIfFound(f2, "givenConductorArea", data.conductorArea)
      f4 == setValueIfFound(f3, "sheathOuterD", data.sheathOuterD)
      f5 == setValueIfFound(f4, "sheathInnerD", data.sheathInnerD)
      f6 == setValueIfFound(f5, "sheathThickness", data.sheathThickness)
      f7 == resolveIfBothFound(f6, data.sheathOuterD, data.sheathInnerD)
      f8 == selectIfFound(f7, "material", condMat)
      f9 == selectIfFound(f8, "sheathMaterial", sheathMat)
      f10 == selectIfFound(f9, "insulationMaterial", data.insulationMaterial)
      f11 == selectIfFound(f10, "outerSheathMaterial", data.outerSheathMaterial)
      f12 == setValue(setValue(f11, "kValue", data.kValue), "beta", data.beta)
  IN [form |-> populateRatedVoltages(f12, data.ratedVoltages, data.voltageKv),
      notes |-> (IF Truthy(data.sccKa) THEN <<>>
                 ELSE <<Note("Short circuit current not found in PDF. Please enter manually.",
                             "warning")>>)
                \o <<Note("Data extracted successfully!", "success")>>]

\* a catch block that would also empty the two current inputs
btnExtractResponseClearing(f, data, ok) ==
  IF ok THEN btnExtractFill(f, data)
  ELSE [form |-> [f EXCEPT !.sccKa = EmptyText, !.sheathSccKa = EmptyText],
        notes |-> <<Note("Could not extract data from PDF", "error")>>]

\* the handler after the await: res.json() or res.ok fails and the catch block
\* runs, or the response is applied
btnExtractResponse(f, data, ok) ==
  IF ok THEN btnExtractFill(f, data)
  ELSE [form |-> f, notes |-> <<Note("Could not extract data from PDF", "error")>>]

(***************************************************************************)
(* Report requests                                                         *)
(***************************************************************************)
\* JSON.stringify of a Number: one that is not finite is written as null
JsonNumber(a) == IF IsFin(a) THEN a ELSE null

\* JSON.stringify(conductorData): the request body
JSONstringifyConductor(d) ==
  [d EXCEPT !.voltage = JsonNumber(@), !.area = JsonNumber(@),
            !.scc_required = JsonNumber(@), !.time = JsonNumber(@),
            !.beta = JsonNumber(@), !.k_value = JsonNumber(@)]

\* JSON.stringify(sheathData): the request body
JSONstringifySheath(d) ==
  [d EXCEPT !.voltage = JsonNumber(@), !.conductor_area = JsonNumber(@),
            !.scc_required = JsonNumber(@), !.time = JsonNumber(@),
            !.theta_i = JsonNumber(@), !.theta_f = JsonNumber(@)]

Request(endpoint, body) == [endpoint |-> endpoint, body |-> body]

(***************************************************************************)
(* State                                                                   *)
(***************************************************************************)
VARIABLES
  form,                \* the text of every input, the option of every select
  conductorData,       \* the conductor report bundle, or null
  sheathData,          \* the sheath report bundle, or null
  conductorCalculated,
  sheathCalculated,
  resultText,          \* what the result box shows
  notifications,       \* the notifications raised by the handler that ran last
  requests,            \* the report requests in flight, in the order they were sent
  ran,                 \* the handler that ran last
  edits                \* how many edits the user has made

vars == <<form, conductorData, sheathData, conductorCalculated, sheathCalculated,
          resultText, notifications, requests, ran, edits>>

\* the user's edits and the requests in flight are bounded
MaxEdits == 1
MaxInFlight == 1

NoResult == [stage |-> "none"]

\* the page as first rendered: every input empty, the two defaults of the script
BlankForm ==
  [conductorMode |-> "area-from-current",
   voltageKv |-> EmptyText, sccKa |-> EmptyText, timeSec |-> EmptyText,
   kValue |-> EmptyText, beta |-> EmptyText, givenConductorArea |-> EmptyText,
   material |-> "", insulationMaterial |-> "XLPE", outerSheathMaterial |-> "PE",
   sheathMaterial |-> "", sheathVoltageKv |-> EmptyText, sheathSccKa |-> EmptyText,
   sheathTimeSec |-> EmptyText, sheathThetaInitial |-> EmptyText,
   sheathThetaFinal |-> EmptyText, sheathOuterD |-> EmptyText,
   sheathInnerD |-> EmptyText, sheathThickness |-> EmptyText,
   sheathAreaGiven |-> EmptyText, borderOuterD |-> "", borderInnerD |-> "",
   pdfFile |-> NoFile, borderSccKa |-> "", borderSheathSccKa |-> "",
   ratedVoltageOptions |-> <<>>, ratedVoltageSelect |-> EmptyText]

\* the page with a cable's data keyed in: 11 kV, copper conductor, lead sheath
DatasheetForm ==
  updateSheathGeometry(
    [BlankForm EXCEPT
       !.voltageKv = Num(11), !.sccKa = Num(25), !.timeSec = Num(1),
       !.kValue = Num(226), !.beta = Dec(2345, 1), !.givenConductorArea = Num(240),
       !.material = "copper", !.sheathMaterial = "lead",
       !.sheathVoltageKv = Num(11), !.sheathSccKa = Dec(1, 1), !.sheathTimeSec = Num(1),
       !.sheathThetaInitial = Num(90), !.sheathThetaFinal = Num(250),
       !.sheathOuterD = Num(3), !.sheathInnerD = Num(1)])

InitialForms == {BlankForm, DatasheetForm}

\* the texts the user types into an input
InputTexts(field) ==
  CASE field = "voltageKv" -> {EmptyText, Num(11)}
    [] field = "sccKa" -> {Num(25), Zero}
    [] field = "timeSec" -> {EmptyText, Num(1)}
    [] field = "kValue" -> {Num(226)}
    [] field = "beta" -> {Dec(2345, 1), Num(-100)}
    [] field = "givenConductorArea" -> {EmptyText, JunkText, Num(240)}
    [] field = "sheathVoltageKv" -> {EmptyText, Num(11)}
    [] field = "sheathSccKa" -> {Dec(1, 1), Num(25)}
    [] field = "sheathTimeSec" -> {Num(1), Zero}
    [] field = "sheathThetaInitial" -> {Num(90), Num(-230), Num(-300)}
    [] field = "sheathThetaFinal" -> {Num(250), Num(50)}
    [] field = "sheathOuterD" -> {Num(3), Dec(10004, 4), Num(1)}
    [] field = "sheathInnerD" -> {EmptyText, Num(1)}

PlainInputs ==
  {"voltageKv", "sccKa", "timeSec", "kValue", "beta", "givenConductorArea",
   "sheathVoltageKv", "sheathSccKa", "sheathTimeSec", "sheathThetaInitial",
   "sheathThetaFinal"}
DiameterInputs == {"sheathOuterD", "sheathInnerD"}

\* the options the user picks in a select
Options(field) ==
  CASE field = "conductorMode" -> {"area-from-current", "current-from-area"}
    [] field = "material" -> {"copper"}
    [] field = "insulationMaterial" -> {"", "XLPE"}
    [] field = "outerSheathMaterial" -> {"PE", "nylon"}
    [] field = "sheathMaterial" -> {"lead", "Gold"}

Selects ==
  {"conductorMode", "material", "insulationMaterial", "outerSheathMaterial",
   "sheathMaterial"}

Init ==
  /\ form \in InitialForms
  /\ conductorData = null
  /\ sheathData = null
  /\ conductorCalculated = FALSE
  /\ sheathCalculated = FALSE
  /\ resultText = NoResult
  /\ notifications = <<>>
  /\ requests = <<>>
  /\ ran = "load"
  /\ edits = 0

(***************************************************************************)
(* The user's edits                                                        *)
(***************************************************************************)
\* typing into an input that has no listener
EditInput(field, text) ==
  /\ edits < MaxEdits
  /\ form[field] # text
  /\ form' = [form EXCEPT ![field] = text]
  /\ edits' = edits + 1
  /\ notifications' = <<>>
  /\ ran' = "edit"
  /\ UNCHANGED <<conductorData, sheathData, conductorCalculated, sheathCalculated,
                 resultText, requests>>

\* picking an option of a select
ChooseOption(field, option) ==
  /\ edits < MaxEdits
  /\ form[field] # option
  /\ form' = [form EXCEPT ![field] = option]
  /\ edits' = edits + 1
  /\ notifications' = <<>>
  /\ ran' = "edit"
  /\ UNCHANGED <<conductorData, sheathData, conductorCalculated, sheathCalculated,
                 resultText, requests>>

\* typing into a diameter input: its "input" listener runs updateSheathGeometry
EditDiameter(field, text) ==
  /\ edits < MaxEdits
  /\ form[field] # text
  /\ form' = updateSheathGeometry([form EXCEPT ![field] = text])
  /\ edits' = edits + 1
  /\ notifications' = <<>>
  /\ ran' = "updateSheathGeometry"
  /\ UNCHANGED <<conductorData, sheathData, conductorCalculated, sheathCalculated,
                 resultText, requests>>

(***************************************************************************)
(* The handlers                                                            *)
(***************************************************************************)
SubmitConductor ==
  \E o \in {conductorFormSubmit(form, conductorData, conductorCalculated, resultText)} :
     /\ conductorData' = o.data
     /\ conductorCalculated' = o.calculated
     /\ resultText' = o.shown
     /\ notifications' = o.notes
     /\ ran' = "conductorForm"
     /\ UNCHANGED <<form, sheathData, sheathCalculated, requests, edits>>

SubmitSheath ==
  \E o \in {sheathFormSubmit(form, sheathData, sheathCalculated, resultText)} :
     /\ sheathData' = o.data
     /\ sheathCalculated' = o.calculated
     /\ resultText' = o.shown
     /\ notifications' = o.notes
     /\ ran' = "sheathForm"
     /\ UNCHANGED <<form, conductorData, conductorCalculated, requests, edits>>

\* a click handler that would send the request whatever the bundle is
btnDownloadUnguarded(data, inFlight) ==
  [requests |-> Append(inFlight,
                       Request("/api/generate_conductor_pdf",
                               IF data = null THEN null ELSE JSONstringifyConductor(data))),
   notes |-> <<>>]

\* btnDownloadConductor click, up to the fetch: the requests it leaves in flight
\* and the notifications it raises
btnDownloadConductorClick(data, inFlight) ==
  IF data = null
  THEN [requests |-> inFlight,
        notes |-> <<Note("Please calculate conductor first.", "warning")>>]
  ELSE [requests |-> Append(inFlight, Request("/api/generate_conductor_pdf",
                                               JSONstringifyConductor(data))),
        notes |-> <<>>]

\* btnDownloadSheath click, up to the fetch
btnDownloadSheathClick(data, inFlight) ==
  IF data = null
  THEN [requests |-> inFlight,
        notes |-> <<Note("Please calculate sheath first.", "warning")>>]
  ELSE [requests |-> Append(inFlight, Request("/api/generate_sheath_pdf",
                                               JSONstringifySheath(data))),
        notes |-> <<>>]

\* the click while fewer than cap requests are in flight
DownloadConductorUpTo(cap) ==
  \E o \in {btnDownloadConductorClick(conductorData, requests)} :
     /\ conductorData = null \/ Len(requests) < cap
     /\ requests' = o.requests
     /\ notifications' = o.notes
     /\ ran' = "btnDownloadConductor"
     /\ UNCHANGED <<form, conductorData, sheathData, conductorCalculated,
                    sheathCalculated, resultText, edits>>

DownloadConductor == DownloadConductorUpTo(MaxInFlight)

DownloadSheathUpTo(cap) ==
  \E o \in {btnDownloadSheathClick(sheathData, requests)} :
     /\ sheathData = null \/ Len(requests) < cap
     /\ requests' = o.requests
     /\ notifications' = o.notes
     /\ ran' = "btnDownloadSheath"
     /\ UNCHANGED <<form, conductorData, sheathData, conductorCalculated,
                    sheathCalculated, resultText, edits>>

DownloadSheath == DownloadSheathUpTo(MaxInFlight)

\* a completion that would also drop the requests sent before it
RemoveThrough(seq, i) == SubSeq(seq, i + 1, Len(seq))

Remove(seq, i) == [j \in 1 .. (Len(seq) - 1) |-> IF j < i THEN seq[j] ELSE seq[j + 1]]

\* the rest of a download handler, after the await: the response is OK and the
\* report is saved, or the fetch fails or answers not OK
ReportResponse(i, ok) ==
  /\ i \in 1 .. Len(requests)
  /\ requests[i].endpoint # "/api/extract"
  /\ requests' = Remove(requests, i)
  /\ notifications' =
       IF requests[i].endpoint = "/api/generate_conductor_pdf"
       THEN (IF ok THEN <<Note("Conductor report downloaded!", "success")>>
             ELSE <<Note("Failed to generate conductor PDF", "error")>>)
       ELSE (IF ok THEN <<Note("Sheath report downloaded!", "success")>>
             ELSE <<Note("Failed to generate sheath PDF", "error")>>)
  /\ ran' = "reportResponse"
  /\ UNCHANGED <<form, conductorData, sheathData, conductorCalculated,
                 sheathCalculated, resultText, edits>>

Next ==
  \/ \E field \in PlainInputs : \E text \in InputTexts(field) : EditInput(field, text)
  \/ \E field \in DiameterInputs : \E text \in InputTexts(field) : EditDiameter(field, text)
  \/ \E field \in Selects : \E option \in Options(field) : ChooseOption(field, option)
  \/ SubmitConductor
  \/ SubmitSheath
  \/ DownloadConductor
  \/ DownloadSheath
  \/ \E i \in 1 .. MaxInFlight + 1 : \E ok \in BOOLEAN : ReportResponse(i, ok)

Spec == Init /\ [][Next]_vars

(***************************************************************************)
(* One conductor submission on every combination of conductor inputs       *)
(***************************************************************************)
ConductorForms ==
  {[DatasheetForm EXCEPT !.conductorMode = mode, !.voltageKv = voltage, !.sccKa = scc,
                         !.timeSec = time, !.kValue = kv, !.beta = b,
                         !.givenConductorArea = area] :
     mode \in Options("conductorMode"),
     voltage \in {EmptyText, Zero, Num(-1), Num(11), Num(400), Dec(40001, 2)},
     scc \in {EmptyText, Zero, Num(25)},
     time \in {EmptyText, Zero, Num(1), Num(10), Dec(1001, 2)},
     kv \in {EmptyText, Zero, Num(226)},
     b \in {EmptyText, Dec(2345, 1), Num(-90), Num(-100), Num(-250), Num(-300)},
     area \in {EmptyText, JunkText, Zero, Num(150), Dec(17471, 2), Num(240)}}

InitConductor ==
  /\ form \in ConductorForms
  /\ conductorData = null
  /\ sheathData = null
  /\ conductorCalculated = FALSE
  /\ sheathCalculated = FALSE
  /\ resultText = NoResult
  /\ notifications = <<>>
  /\ requests = <<>>
  /\ ran = "load"
  /\ edits = 0

NextConductor == SubmitConductor

SpecConductor == InitConductor /\ [][NextConductor]_vars

(***************************************************************************)
(* One area-from-current submission on a grid of currents, durations,       *)
(* constants K and beta, no candidate area given                            *)
(***************************************************************************)
RoundTripForms ==
  {[DatasheetForm EXCEPT !.conductorMode = "area-from-current", !.sccKa = scc,
                         !.timeSec = time, !.kValue = kv, !.beta = b,
                         !.givenConductorArea = EmptyText] :
     scc \in {Zero, Dec(5, 1), Num(1), Dec(125, 1), Num(25), Dec(315, 1), Num(40), Num(63)},
     time \in {Dec(2, 1), Dec(5, 1), Num(1), Num(3), Num(10)},
     kv \in {Num(41), Num(148), Num(226)},
     b \in {Num(-100), Num(-89), Zero, Num(202), Num(228), Dec(2345, 1)}}

InitRoundTrip ==
  /\ form \in RoundTripForms
  /\ conductorData = null
  /\ sheathData = null
  /\ conductorCalculated = FALSE
  /\ sheathCalculated = FALSE
  /\ resultText = NoResult
  /\ notifications = <<>>
  /\ requests = <<>>
  /\ ran = "load"
  /\ edits = 0

NextRoundTrip == SubmitConductor

SpecRoundTrip == InitRoundTrip /\ [][NextRoundTrip]_vars

(***************************************************************************)
(* Report requests in flight together, between submissions that replace    *)
(* the bundles                                                             *)
(***************************************************************************)
\* the report requests in flight together are bounded
MaxConcurrent == 2

\* the candidate areas typed between two submissions
CandidateAreas == {Num(150), Num(240)}

InitReports ==
  /\ form = DatasheetForm
  /\ conductorData = null
  /\ sheathData = null
  /\ conductorCalculated = FALSE
  /\ sheathCalculated = FALSE
  /\ resultText = NoResult
  /\ notifications = <<>>
  /\ requests = <<>>
  /\ ran = "load"
  /\ edits = 0

NextReports ==
  \/ \E text \in CandidateAreas : EditInput("givenConductorArea", text)
  \/ SubmitConductor
  \/ SubmitSheath
  \/ DownloadConductorUpTo(MaxConcurrent)
  \/ DownloadSheathUpTo(MaxConcurrent)
  \/ \E i \in 1 .. MaxConcurrent + 1 : \E ok \in BOOLEAN : ReportResponse(i, ok)

SpecReports == InitReports /\ [][NextReports]_vars

(***************************************************************************)
(* One sheath submission on every combination of materials, voltage and    *)
(* sheath thickness                                                        *)
(***************************************************************************)
ThermalForms ==
  {updateSheathGeometry(
     [DatasheetForm EXCEPT !.insulationMaterial = insulation,
                           !.outerSheathMaterial = outer, !.sheathMaterial = metal,
                           !.sheathVoltageKv = voltage, !.sheathOuterD = Do]) :
     insulation \in {"XLPE", "PVC", "EPR", "oil", "nylon"},
     outer \in {"PE", "PVC", "polychloroprene", "XLPE"},
     metal \in {"lead", "Steel", "aluminium", "Gold"},
     voltage \in {Num(1), Num(3), Dec(301, 2), Num(11), Num(35), Dec(3501, 2), Num(66)},
     Do \in {Num(3), Dec(10004, 4)}}

InitThermal ==
  /\ form \in ThermalForms
  /\ conductorData = null
  /\ sheathData = null
  /\ conductorCalculated = FALSE
  /\ sheathCalculated = FALSE
  /\ resultText = NoResult
  /\ notifications = <<>>
  /\ requests = <<>>
  /\ ran = "load"
  /\ edits = 0

NextThermal == SubmitSheath

SpecThermal == InitThermal /\ [][NextThermal]_vars

(***************************************************************************)
(* Extraction: a datasheet is chosen, sent to the extraction service and    *)
(* the response fills the form, between submissions and report downloads    *)
(***************************************************************************)
\* the data read from a datasheet: the voltages and the current, then the
\* sheath dimensions
Datasheet(voltageKv, ratedVoltages, sccKa, outerD, innerD, thickness) ==
  [name |-> "datasheet", voltageKv |-> voltageKv, ratedVoltages |-> ratedVoltages,
   sccKa |-> sccKa, timeSec |-> null, conductorArea |-> Num(150),
   sheathOuterD |-> outerD, sheathInnerD |-> innerD, sheathThickness |-> thickness,
   conductorMaterial |-> "copper", material |-> "", sheathMaterial |-> "",
   insulationMaterial |-> "XLPE", outerSheathMaterial |-> "",
   kValue |-> Num(226), beta |-> Dec(2345, 1)]

Files ==
  {Datasheet(v[1], v[2], v[3], d[1], d[2], d[3]) :
     v \in {<<Num(11), <<Num(11), Num(33)>>, Dec(1, 1)>>,
            <<null, <<Num(11), Num(33)>>, Dec(1, 1)>>,
            <<JunkText, <<Num(33), Num(11)>>, null>>},
     d \in {<<Num(5), Num(2), null>>, <<Num(5), null, null>>, <<null, null, Dec(5, 1)>>}}

\* pdfInput change: a file is chosen, or the choice is cancelled
ChooseFile(file) ==
  /\ edits < MaxEdits
  /\ form.pdfFile # file
  /\ form' = [form EXCEPT !.pdfFile = file]
  /\ edits' = edits + 1
  /\ notifications' = IF file = NoFile THEN <<>>
                      ELSE <<Note("PDF loaded successfully!", "success")>>
  /\ ran' = "pdfInput"
  /\ UNCHANGED <<conductorData, sheathData, conductorCalculated, sheathCalculated,
                 resultText, requests>>

\* btnExtract click, up to the fetch: the result box is hidden and the file is
\* sent
ClickExtract ==
  /\ form.pdfFile = NoFile \/ Len(requests) < MaxInFlight
  /\ IF form.pdfFile = NoFile
     THEN /\ notifications' = <<Note("Please choose a PDF file first.", "warning")>>
          /\ UNCHANGED <<resultText, requests>>
     ELSE /\ notifications' = <<Note("Extracting data from PDF...", "info")>>
          /\ resultText' = NoResult
          /\ requests' = Append(requests, Request("/api/extract", form.pdfFile))
  /\ ran' = "btnExtract"
  /\ UNCHANGED <<form, conductorData, sheathData, conductorCalculated,
                 sheathCalculated, edits>>

\* the rest of the btnExtract handler, after the await
ExtractResponse(i, ok) ==
  /\ i \in 1 .. Len(requests)
  /\ requests[i].endpoint = "/api/extract"
  /\ \E o \in {btnExtractResponse(form, requests[i].body, ok)} :
        /\ form' = o.form
        /\ notifications' = o.notes
  /\ requests' = Remove(requests, i)
  /\ ran' = "extractResponse"
  /\ UNCHANGED <<conductorData, sheathData, conductorCalculated, sheathCalculated,
                 resultText, edits>>

InitExtract ==
  /\ form \in InitialForms
  /\ conductorData = null
  /\ sheathData = null
  /\ conductorCalculated = FALSE
  /\ sheathCalculated = FALSE
  /\ resultText = NoResult
  /\ notifications = <<>>
  /\ requests = <<>>
  /\ ran = "load"
  /\ edits = 0

NextExtract ==
  \/ \E file \in Files \cup {NoFile} : ChooseFile(file)
  \/ ClickExtract
  \/ \E i \in 1 .. MaxInFlight + 1 : \E ok \in BOOLEAN : ExtractResponse(i, ok)
  \/ \E field \in DiameterInputs : \E text \in InputTexts(field) : EditDiameter(field, text)
  \/ SubmitConductor
  \/ DownloadConductor
  \/ \E i \in 1 .. MaxInFlight + 1 : \E ok \in BOOLEAN : ReportResponse(i, ok)

SpecExtract == InitExtract /\ [][NextExtract]_vars

(***************************************************************************)
(* Properties                                                              *)
(***************************************************************************)
\* the integer x * 10^d of a number x with at most d decimals
Units(x, d) ==
  IF x.e + d >= 0 THEN x.m * Pow10(x.e + d) ELSE x.m \div Pow10(-(x.e + d))

Raised(message) == \E i \in 1 .. Len(notifications) : notifications[i].message = message
RaisedType(type) == \E i \in 1 .. Len(notifications) : notifications[i].type = type

\* the messages of the input guards of the two submit handlers
GuardMessages ==
  {"Please fill all conductor inputs.", "Please fill time, K, beta and given area.",
   "Voltage and time must be positive.", "Voltage must not be greater than 400 kV.",
   "Time must not be greater than 10 seconds.", "Current and K must be positive.",
   "Time must be positive.", "Area and K must be positive.",
   "Given conductor area must be positive.", "Please fill all sheath inputs.",
   "Short-circuit current must be positive.",
   "Outer diameter must be greater than inner diameter."}

\* some guard of the conductor handler fails on the form f
ConductorGuardFails(f) ==
  LET voltage == parseFloat(f.voltageKv)
      scc == parseFloat(f.sccKa)
      time == parseFloat(f.timeSec)
      kv == parseFloat(f.kValue)
      b == parseFloat(f.beta)
      area == parseFloat(f.givenConductorArea)
  IN IF f.conductorMode = "area-from-current"
     THEN \/ ~IsFin(voltage) \/ ~IsFin(scc) \/ ~IsFin(time) \/ ~IsFin(kv) \/ ~IsFin(b)
          \/ voltage.m <= 0 \/ time.m <= 0
          \/ Units(voltage, 2) > 40000 \/ Units(time, 2) > 1000
          \/ scc.m <= 0 \/ kv.m <= 0
          \/ (f.givenConductorArea # EmptyText /\ (~IsFin(area) \/ area.m <= 0))
     ELSE \/ ~IsFin(time) \/ ~IsFin(kv) \/ ~IsFin(b) \/ ~IsFin(area)
          \/ time.m <= 0 \/ area.m <= 0 \/ kv.m <= 0

\* some guard of the sheath handler fails on the form f
SheathGuardFails(f) ==
  LET nums == {parseFloat(f.sheathVoltageKv), parseFloat(f.sheathSccKa),
               parseFloat(f.sheathTimeSec), parseFloat(f.sheathThetaInitial),
               parseFloat(f.sheathThetaFinal), parseFloat(f.sheathOuterD),
               parseFloat(f.sheathInnerD), parseFloat(f.sheathThickness),
               parseFloat(f.sheathAreaGiven)}
      voltage == parseFloat(f.sheathVoltageKv)
      time == parseFloat(f.sheathTimeSec)
      Do == parseFloat(f.sheathOuterD)
      Di == parseFloat(f.sheathInnerD)
  IN \/ f.sheathMaterial = "" \/ f.insulationMaterial = "" \/ f.outerSheathMaterial = ""
     \/ \E v \in nums : ~IsFin(v)
     \/ voltage.m <= 0 \/ time.m <= 0
     \/ Units(voltage, 2) > 40000 \/ Units(time, 2) > 1000
     \/ parseFloat(f.sheathSccKa).m <= 0
     \/ Di.m <= 0 \/ Units(Do, 4) <= Units(Di, 4)

StagesUnchanged ==
  /\ conductorData' = conductorData
  /\ sheathData' = sheathData
  /\ conductorCalculated' = conductorCalculated
  /\ sheathCalculated' = sheathCalculated

\* C1: a conductor or sheath submission in which an input guard fails (missing or
\* non-numeric input, voltage or time out of range, non-positive current or K,
\* outer diameter not above the inner one, no material selected, invalid
\* candidate area) raises that guard's message and leaves conductorData,
\* sheathData, conductorCalculated and sheathCalculated as they were.
C1_FailedGuardKeepsState ==
  [][/\ (ran' = "conductorForm" /\ ConductorGuardFails(form))
          => (StagesUnchanged /\ \E g \in GuardMessages : Raised(g)')
     /\ (ran' = "sheathForm" /\ SheathGuardFails(form))
          => (StagesUnchanged /\ \E g \in GuardMessages : Raised(g)')
     /\ (ran' \in {"conductorForm", "sheathForm"} /\ \E g \in GuardMessages : Raised(g)')
          => StagesUnchanged]_vars

\* C1 witness: after two successful submissions, a submission fails a guard
\* and both bundles are still there
C1_Witness ==
  /\ ran \in {"conductorForm", "sheathForm"}
  /\ \E g \in GuardMessages : Raised(g)
  /\ conductorData # null /\ sheathData # null
  /\ conductorCalculated /\ sheathCalculated

\* one of the five core scalars of the conductor form is missing or no number
CoreScalarMissing(f) ==
  \E field \in {"voltageKv", "sccKa", "timeSec", "kValue", "beta"} :
     IsNaN(parseFloat(f[field]))

\* C2: a conductor submission, in either mode, with one of the five core
\* scalars (voltage, current, time, K, beta) missing or NaN shows no result and
\* does not write conductorData.
C2_MissingScalarBlocks ==
  [][(ran' = "conductorForm" /\ CoreScalarMissing(form))
       => (conductorData' = conductorData /\ resultText' = resultText)]_vars

\* voltage <= 0, time <= 0, voltage > 400 or time > 10, on inputs with at most
\* two decimals
OutOfRange(voltageKv, t) ==
  \/ Units(voltageKv, 2) <= 0 \/ Units(t, 2) <= 0
  \/ Units(voltageKv, 2) > 40000 \/ Units(t, 2) > 1000

ValidationMessages ==
  {"Voltage and time must be positive.", "Voltage must not be greater than 400 kV.",
   "Time must not be greater than 10 seconds."}

\* C3: validateVoltageTime(voltageKv, t) returns false exactly when
\* voltageKv <= 0, t <= 0, voltageKv > 400 or t > 10, and true for every other
\* pair of numbers; a conductor submission with five numeric scalars raises a
\* validation message exactly in those cases.
C3_ValidateVoltageTime ==
  LET voltageKv == parseFloat(form.voltageKv)
      t == parseFloat(form.timeSec)
  IN /\ (IsFin(voltageKv) /\ IsFin(t))
          => (validateVoltageTime(voltageKv, t).ret <=> ~OutOfRange(voltageKv, t))
     /\ (/\ ran = "conductorForm"
         /\ form.conductorMode = "area-from-current"
         /\ ~CoreScalarMissing(form))
          => ((\E g \in ValidationMessages : Raised(g)) <=> OutOfRange(voltageKv, t))

\* C3 witness: voltage 400 and time 10 have passed validation in a submission
C3_Witness ==
  /\ ran = "conductorForm"
  /\ form.voltageKv = Num(400) /\ form.timeSec = Num(10)
  /\ conductorData # null

\* C3: "400.01 and 10.01 fail": the submissions that were refused
C3_WitnessRefused ==
  /\ ran = "conductorForm"
  /\ form.voltageKv = Dec(40001, 2) /\ form.timeSec = Num(10)
  /\ Raised("Voltage must not be greater than 400 kV.")

\* the conductor form passes the input guards of calculateConductorAreaFromCurrent
CoreScalarsValid(f) ==
  /\ ~CoreScalarMissing(f)
  /\ ~OutOfRange(parseFloat(f.voltageKv), parseFloat(f.timeSec))
  /\ parseFloat(f.sccKa).m > 0 /\ parseFloat(f.kValue).m > 0

\* C4: on valid core scalars the area-from-current computation returns null and
\* signals an error whenever ln_term = ln((250 + beta) / (90 + beta)) is not
\* greater than 0 or S^2 <= 0, and returns sqrt(I_AD^2 * t / (K^2 * ln_term)),
\* I_AD in amperes, otherwise.
C4_AreaFromCurrent ==
  LET I_AD_A == Mul(parseFloat(form.sccKa), Num(1000))
      t == parseFloat(form.timeSec)
      K == parseFloat(form.kValue)
      ln_term == Ln(Div(Add(Num(250), parseFloat(form.beta)),
                        Add(Num(90), parseFloat(form.beta))))
      S_sq == Div(Mul(Mul(I_AD_A, I_AD_A), t), Mul(Mul(K, K), ln_term))
      r == calculateConductorAreaFromCurrent(form)
  IN CoreScalarsValid(form) =>
       IF ~Gt(ln_term, Zero) \/ Le(S_sq, Zero)
       THEN r.ret = null /\ \E i \in 1 .. Len(r.notes) : r.notes[i].type = "error"
       ELSE r.ret = Sqrt(S_sq)

\* a >= b for two numbers with at most two decimals
AtLeast(a, b) == Units(a, 2) >= Units(b, 2)

PassVerdict ==
  /\ Raised("Conductor calculation passed!")
  /\ resultText.stage = "conductor" /\ resultText.verdict = "sufficient"

UndersizedVerdict ==
  /\ Raised("Cable undersized - check results!")
  /\ resultText.stage = "conductor" /\ resultText.verdict = "undersized"

NoVerdict ==
  /\ ~Raised("Conductor calculation passed!")
  /\ ~Raised("Cable undersized - check results!")
  /\ resultText.stage = "conductor" => resultText.verdict = "none"

\* an area-from-current submission whose required area was computed
RequiredAreaComputed ==
  /\ ran = "conductorForm"
  /\ form.conductorMode = "area-from-current"
  /\ ~IsNull(calculateConductorAreaFromCurrent(form).ret)

\* C8 as stated: with a candidate area supplied the submission emits a pass
\* verdict exactly when candidate >= required and an undersized verdict
\* otherwise; with no candidate supplied it emits no verdict.
C8_VerdictForAnyCandidate ==
  LET required == calculateConductorAreaFromCurrent(form).ret
      candidate == parseFloat(form.givenConductorArea)
      atLeast == IsFin(candidate) /\ IsFin(required) /\ AtLeast(candidate, required)
  IN RequiredAreaComputed =>
       IF form.givenConductorArea # EmptyText
       THEN (PassVerdict <=> atLeast) /\ (UndersizedVerdict <=> ~atLeast)
       ELSE NoVerdict

\* C8, amended: with a positive numeric candidate area supplied the submission
\* emits a pass verdict exactly when candidate >= required (equality passes)
\* and an undersized verdict otherwise; with no candidate supplied it emits no
\* verdict; a supplied candidate that is non-numeric or not positive aborts the
\* submission with an error and no verdict.
C8_VerdictForPositiveCandidate ==
  LET required == calculateConductorAreaFromCurrent(form).ret
      candidate == parseFloat(form.givenConductorArea)
      atLeast == IsFin(required) /\ AtLeast(candidate, required)
  IN RequiredAreaComputed =>
       IF form.givenConductorArea = EmptyText THEN NoVerdict /\ conductorData # null
       ELSE IF IsFin(candidate) /\ candidate.m > 0
       THEN /\ PassVerdict <=> atLeast
            /\ UndersizedVerdict <=> ~atLeast
            /\ conductorData # null
       ELSE /\ NoVerdict
            /\ Raised("Given conductor area must be positive.")
            /\ conductorData = null

\* C8 witness: the candidate equals the required area and passes
C8_Witness ==
  /\ RequiredAreaComputed
  /\ form.givenConductorArea = Dec(17471, 2)
  /\ calculateConductorAreaFromCurrent(form).ret = Dec(17471, 2)
  /\ PassVerdict

(***************************************************************************)
(* Sheath submissions                                                      *)
(***************************************************************************)
\* ln((theta_f + beta) / (theta_i + beta)) <= 0 or s^2 <= 0, on whole degrees:
\* the ratio lies in [0, 1], or the ratio is +Infinity and s^2 is 0
AdiabaticNoResult(f) ==
  LET metal == toLowerCase(f.sheathMaterial)
      beta == Units(TABLE_I_SHEATHS(metal).beta, 0)
      num == Units(parseFloat(f.sheathThetaFinal), 0) + beta
      den == Units(parseFloat(f.sheathThetaInitial), 0) + beta
  IN \/ metal \notin SheathNames
     \/ den > 0 /\ 0 <= num /\ num <= den
     \/ den < 0 /\ den <= num /\ num <= 0
     \/ den = 0 /\ num > 0

\* a material lookup misses or the denominator 2 * sigma1 * delta * 1e-3 is zero
MNoResult(f) ==
  \/ f.insulationMaterial \notin InsulatingNames
  \/ f.outerSheathMaterial \notin ProtectiveNames
  \/ toLowerCase(f.sheathMaterial) \notin SheathNames
  \/ parseFloat(f.sheathThickness).m = 0

\* t <= 0
EpsilonNoResult(f) == parseFloat(f.sheathTimeSec).m <= 0

OnlyError(message) == notifications' = <<Note(message, "error")>>

SheathStageUnchanged ==
  sheathData' = sheathData /\ sheathCalculated' = sheathCalculated

\* C5: a sheath submission that passes the input guards runs adiabatic area, M
\* factor, epsilon and required area in this order, each gating the next: the
\* first of them that yields no result (unknown sheath metal, ln_term <= 0 or
\* s^2 <= 0, material lookup miss, zero denominator, t <= 0) raises its error
\* and no other, and sheathData and sheathCalculated stay as they were; when
\* none fails the bundle is written.
C5_SubComputationsGate ==
  [][(ran' = "sheathForm" /\ ~SheathGuardFails(form)) =>
       IF AdiabaticNoResult(form)
       THEN OnlyError("Could not calculate adiabatic sheath area.") /\ SheathStageUnchanged
       ELSE IF MNoResult(form)
       THEN OnlyError("Could not calculate M factor.") /\ SheathStageUnchanged
       ELSE IF EpsilonNoResult(form)
       THEN OnlyError("Could not calculate epsilon factor.") /\ SheathStageUnchanged
       ELSE sheathData' # null /\ sheathCalculated' /\ ~RaisedType("error")']_vars

\* C5 witness: with the sheath stage calculated, a submission in which both
\* the adiabatic area and the M factor have no result (a metal that is not in
\* the table) raised the error of the adiabatic area only
C5_Witness ==
  /\ ran = "sheathForm"
  /\ form.sheathMaterial = "Gold"
  /\ notifications = <<Note("Could not calculate adiabatic sheath area.", "error")>>
  /\ sheathData # null /\ sheathCalculated

\* C5 witness: the M factor has no result (thickness 0.000) after the adiabatic
\* area was computed
C5_WitnessM ==
  /\ ran = "sheathForm"
  /\ ~AdiabaticNoResult(form)
  /\ parseFloat(form.sheathThickness) = Zero
  /\ notifications = <<Note("Could not calculate M factor.", "error")>>

SheathSucceeded ==
  /\ ran = "sheathForm"
  /\ Raised("Sheath calculation passed!") \/ Raised("Sheath undersized - check results!")

ConductorSucceeded ==
  /\ ran = "conductorForm"
  /\ \/ Raised("Conductor calculation passed!")
     \/ Raised("Cable undersized - check results!")
     \/ Raised("Conductor calculation complete!")
     \/ (conductorData # null /\ notifications = <<>>)

\* C6: every numeric field of a bundle stored by a submission is a number
\* entered by the user or computed from valid inputs, never a zero, a default
\* or a NaN standing in for a missing or invalid input.
C6_NoFabricatedValue ==
  /\ SheathSucceeded =>
       /\ sheathData.conductor_area = form.givenConductorArea
       /\ \A field \in {"voltage", "conductor_area", "thickness", "inner_d", "outer_d",
                        "sheath_area", "scc_required", "time", "theta_i", "theta_f",
                        "i_ad", "m_factor", "epsilon", "i_non_ad"} :
             IsFin(sheathData[field])
  /\ ConductorSucceeded =>
       /\ conductorData.voltage = form.voltageKv
       /\ conductorData.scc_required = form.sccKa
       /\ \A field \in {"voltage", "area", "scc_required", "time", "beta", "k_value",
                        "i_ad"} :
             IsFin(conductorData[field])

\* C7: in a successful sheath submission the required area is s_adiab * epsilon,
\* the verdict is pass exactly when actual area >= required area and undersized
\* exactly when actual area < required area.
C7_SheathVerdict ==
  LET metal == toLowerCase(form.sheathMaterial)
      t == parseFloat(form.sheathTimeSec)
      s_adiab == calculateSheathAdiabaticArea(parseFloat(form.sheathSccKa), t, metal,
                   parseFloat(form.sheathThetaInitial), parseFloat(form.sheathThetaFinal))
      M == calculateM(form.insulationMaterial, form.outerSheathMaterial,
                      parseFloat(form.sheathThickness), metal,
                      parseFloat(form.sheathVoltageKv), "no")
      required == Mul(s_adiab, calculateEpsilon(M, t))
      actual == parseFloat(form.sheathAreaGiven)
  IN SheathSucceeded =>
       /\ resultText.stage = "sheath"
       /\ resultText.s_required = ToFixed(required, 2)
       /\ resultText.verdict \in {"sufficient", "undersized"}
       /\ resultText.verdict = "sufficient" <=> Ge(actual, required)
       /\ resultText.verdict = "undersized" <=> Lt(actual, required)

(***************************************************************************)
(* The geometry resolver on every pair of diameter texts                   *)
(***************************************************************************)
DiameterTexts ==
  {EmptyText, JunkText, Zero, Num(-1), Num(1), Dec(10004, 4), Dec(15, 1), Num(2),
   Dec(225, 2), Num(3), Dec(30012, 4)}

GeometryForms ==
  {updateSheathGeometry([BlankForm EXCEPT !.sheathOuterD = outer, !.sheathInnerD = inner]) :
     outer \in DiameterTexts, inner \in DiameterTexts}

InitGeometry ==
  /\ form \in GeometryForms
  /\ conductorData = null
  /\ sheathData = null
  /\ conductorCalculated = FALSE
  /\ sheathCalculated = FALSE
  /\ resultText = NoResult
  /\ notifications = <<>>
  /\ requests = <<>>
  /\ ran = "updateSheathGeometry"
  /\ edits = 0

NextGeometry ==
  \E field \in DiameterInputs : \E text \in DiameterTexts : EditDiameter(field, text)

SpecGeometry == InitGeometry /\ [][NextGeometry]_vars

\* Do > Di > 0 on two numeric diameters of at most four decimals
Resolvable(f) ==
  /\ IsFin(parseFloat(f.sheathOuterD)) /\ IsFin(parseFloat(f.sheathInnerD))
  /\ Units(parseFloat(f.sheathInnerD), 4) > 0
  /\ Units(parseFloat(f.sheathOuterD), 4) > Units(parseFloat(f.sheathInnerD), 4)

\* Do - Di in 0.0001 mm
DiameterGap(f) ==
  Units(parseFloat(f.sheathOuterD), 4) - Units(parseFloat(f.sheathInnerD), 4)

\* (pi / 4) * (Do^2 - Di^2) in 0.00001 mm^2, with pi = 355 / 113
RingArea(f) ==
  LET Do == Units(parseFloat(f.sheathOuterD), 4)
      Di == Units(parseFloat(f.sheathInnerD), 4)
  IN (((Do * Do - Di * Di) \div 1000) * 355) \div 452

\* the area field is within 0.006 mm^2 of RingArea
AreaFieldMatches(f) ==
  /\ IsFin(f.sheathAreaGiven)
  /\ Abs(1000 * Units(f.sheathAreaGiven, 2) - RingArea(f)) <= 600

DerivedFieldsCleared(f) ==
  f.sheathThickness = EmptyText /\ f.sheathAreaGiven = EmptyText

\* C9 as stated: for Do > Di > 0 the thickness field is (Do - Di) / 2 and the
\* area field (pi / 4) * (Do^2 - Di^2); otherwise both fields are cleared; the
\* resolver applied again changes nothing.
C9_ExactGeometry ==
  /\ IF Resolvable(form)
     THEN /\ IsFin(form.sheathThickness)
          /\ 2 * Units(form.sheathThickness, 4) = DiameterGap(form)
          /\ AreaFieldMatches(form)
     ELSE DerivedFieldsCleared(form)
  /\ updateSheathGeometry(form) = form

\* C9, amended: for Do > Di > 0 the thickness field is (Do - Di) / 2 rounded to
\* three decimals (0.000 when Do - Di < 0.001) and the area field is
\* (pi / 4) * (Do^2 - Di^2) rounded to two decimals; whenever Do <= Di or a
\* diameter is not a positive number both fields are cleared (empty, not zero);
\* the resolver applied again to the same inputs changes nothing.
C9_RoundedGeometry ==
  /\ IF Resolvable(form)
     THEN /\ IsFin(form.sheathThickness)
          /\ form.sheathThickness = ToFixed(form.sheathThickness, 3)
          /\ Abs(20 * Units(form.sheathThickness, 3) - DiameterGap(form)) <= 10
          /\ AreaFieldMatches(form)
          /\ form.sheathAreaGiven = ToFixed(form.sheathAreaGiven, 2)
     ELSE DerivedFieldsCleared(form)
  /\ updateSheathGeometry(form) = form

\* C9 witness: an edit of a diameter left a thickness rounded to three decimals
C9_Witness ==
  /\ ran = "updateSheathGeometry" /\ edits > 0
  /\ form.sheathOuterD = Dec(30012, 4) /\ form.sheathInnerD = Num(1)
  /\ form.sheathThickness = Dec(1001, 3)

\* C9 witness: an edit that makes Do <= Di cleared the derived fields
C9_WitnessCleared ==
  /\ ran = "updateSheathGeometry" /\ edits > 0
  /\ form.sheathOuterD = Num(1) /\ form.sheathInnerD = Num(2)
  /\ DerivedFieldsCleared(form)

(***************************************************************************)
(* Report requests                                                         *)
(***************************************************************************)
BundlesMatchFlags ==
  /\ conductorCalculated <=> conductorData # null
  /\ sheathCalculated <=> sheathData # null

\* C10: a report request of a stage is sent only when the stage's bundle is
\* not null: a click on download with a null bundle sends nothing, every
\* request sent carries the bundle of its stage, a bundle becomes non-null
\* only in a successful submission of its own stage, and conductorCalculated
\* (sheathCalculated) is true exactly when conductorData (sheathData) is not
\* null.
C10_RequestNeedsBundle ==
  [][/\ BundlesMatchFlags /\ BundlesMatchFlags'
     /\ (ran' = "btnDownloadConductor" /\ conductorData = null) => requests' = requests
     /\ (ran' = "btnDownloadSheath" /\ sheathData = null) => requests' = requests
     /\ Len(requests') > Len(requests) =>
          \/ /\ ran' = "btnDownloadConductor" /\ conductorData # null
             /\ requests'[Len(requests')] =
                  Request("/api/generate_conductor_pdf", JSONstringifyConductor(conductorData))
          \/ /\ ran' = "btnDownloadSheath" /\ sheathData # null
             /\ requests'[Len(requests')] =
                  Request("/api/generate_sheath_pdf", JSONstringifySheath(sheathData))
     /\ (conductorData = null /\ conductorData' # null) => ran' = "conductorForm"
     /\ (sheathData = null /\ sheathData' # null) => ran' = "sheathForm"]_vars

\* C10 witness: a click on download before any calculation sent nothing
C10_Witness ==
  /\ ran = "btnDownloadConductor"
  /\ conductorData = null /\ ~conductorCalculated
  /\ requests = <<>>
  /\ Raised("Please calculate conductor first.")

\* C10 witness: a request in flight, sent from a calculated stage
C10_WitnessSent ==
  /\ ran = "btnDownloadSheath"
  /\ sheathData # null /\ sheathCalculated
  /\ Len(requests) = 1 /\ requests[1].endpoint = "/api/generate_sheath_pdf"

(***************************************************************************)
(* Failed requests                                                         *)
(***************************************************************************)
\* the continuation of a request ran in this step and raised no success
FailedAttempt ==
  /\ ran' \in {"extractResponse", "reportResponse"}
  /\ Len(requests') < Len(requests)
  /\ \A i \in 1 .. Len(notifications') : notifications'[i].type # "success"

ErrorsRaised == Cardinality({i \in 1 .. Len(notifications) : notifications[i].type = "error"})

\* the last handler was the continuation of a failed request
AfterFailure(handler, message) == ran = handler /\ Raised(message)

\* the click is possible again and sends the request again
CanRetryExtract ==
  ENABLED (ClickExtract /\ (form.pdfFile # NoFile =>
                              requests' = Append(requests, Request("/api/extract", form.pdfFile))))

CanRetryConductorReport ==
  /\ conductorData # null
  /\ ENABLED (DownloadConductor
              /\ requests' = Append(requests, Request("/api/generate_conductor_pdf",
                                                      JSONstringifyConductor(conductorData))))

CanRetrySheathReport ==
  /\ sheathData # null
  /\ ENABLED (DownloadSheath
              /\ requests' = Append(requests, Request("/api/generate_sheath_pdf",
                                                      JSONstringifySheath(sheathData))))

\* C11: when an extraction or report request fails, its continuation raises
\* exactly one error notification and leaves the form and both bundles as they
\* were; afterwards the same click is possible and sends the request again
C11_FailedRequestKeepsState ==
  /\ [][FailedAttempt =>
          /\ ErrorsRaised' = 1
          /\ Len(notifications') = 1
          /\ form' = form
          /\ conductorData' = conductorData
          /\ sheathData' = sheathData]_vars
  /\ [](/\ AfterFailure("extractResponse", "Could not extract data from PDF")
            => CanRetryExtract
        /\ AfterFailure("reportResponse", "Failed to generate conductor PDF")
            => CanRetryConductorReport
        /\ AfterFailure("reportResponse", "Failed to generate sheath PDF")
            => CanRetrySheathReport)

\* an extraction failed on a page that holds a conductor bundle and a chosen file
C11_Witness ==
  /\ AfterFailure("extractResponse", "Could not extract data from PDF")
  /\ conductorData # null
  /\ form.pdfFile \in Files

\* a conductor report request failed
C11_WitnessReport ==
  /\ AfterFailure("reportResponse", "Failed to generate conductor PDF")
  /\ conductorData # null

(***************************************************************************)
(* Extraction responses                                                    *)
(***************************************************************************)
\* the response has no voltageKv (null, NaN or no number) and lists rated
\* voltages
VoltageMissing(data) ==
  data.voltageKv.k \in {"null", "nan", "text"} /\ Len(data.ratedVoltages) > 0

HighestOf(list) ==
  CHOOSE v \in {list[i] : i \in 1 .. Len(list)} :
    \A j \in 1 .. Len(list) : Units(list[j], 2) <= Units(v, 2)

\* the response of request i was applied in this step
Extracted(i) ==
  /\ ran' = "extractResponse"
  /\ requests[i].endpoint = "/api/extract"
  /\ requests' = Remove(requests, i)
  /\ \E n \in 1 .. Len(notifications') : notifications'[n].type = "success"

\* C12: when the response has no voltageKv and a non-empty ratedVoltages list,
\* the voltage written to voltageKv and sheathVoltageKv is the highest value of
\* the list, whatever the order of the list
C12_FallbackIsHighest ==
  [][\A i \in 1 .. Len(requests) :
       (Extracted(i) /\ VoltageMissing(requests[i].body)) =>
         /\ form'.voltageKv = HighestOf(requests[i].body.ratedVoltages)
         /\ form'.sheathVoltageKv = HighestOf(requests[i].body.ratedVoltages)]_vars

\* a response without voltage whose list is in ascending order was applied
C12_WitnessAscending ==
  /\ ran = "extractResponse"
  /\ form.pdfFile \in Files
  /\ VoltageMissing(form.pdfFile)
  /\ form.voltageKv = Num(33)
  /\ form.sheathVoltageKv = Num(33)

(***************************************************************************)
(* Round trip of the conductor formulas                                    *)
(***************************************************************************)
\* valid inputs with ln_term > 0: (250 + beta) / (90 + beta) > 1 exactly when
\* beta > -90
RoundTripInputsValid(f) ==
  /\ CoreScalarsValid(f)
  /\ Units(parseFloat(f.beta), 2) > -9000

\* |a - b| <= b / 1000, on ten-thousandths
WithinTolerance(a, b) ==
  /\ IsFin(a)
  /\ Abs(Units(a, 4) - Units(b, 4)) * 1000 <= Units(b, 4)

\* C13: for valid (I, t, K, beta) with ln_term > 0, the area returned by
\* area-from-current, fed into current-from-area with the same t, K and beta,
\* gives I back within tolerance; so does the current the handler stores for
\* the required area
C13_RoundTrip ==
  RoundTripInputsValid(form) =>
    /\ \A r \in {calculateConductorAreaFromCurrent(form)} :
         /\ IsFin(r.ret)
         /\ WithinTolerance(
              calculateConductorCurrentFromArea(
                [form EXCEPT !.givenConductorArea = String(r.ret)]).ret,
              parseFloat(form.sccKa))
    /\ (ran = "conductorForm" /\ form.givenConductorArea = EmptyText) =>
         /\ conductorData # null
         /\ WithinTolerance(conductorData.i_ad, parseFloat(form.sccKa))

\* a required area was computed for 31.5 kA and its current stored
C13_Witness ==
  /\ ran = "conductorForm"
  /\ RoundTripInputsValid(form)
  /\ form.sccKa = Dec(315, 1)
  /\ form.givenConductorArea = EmptyText
  /\ conductorData # null
  /\ IsFin(conductorData.area)

(***************************************************************************)
(* Derived geometry after diameter events and extraction responses         *)
(***************************************************************************)
\* the derived fields are both cleared, or are what the resolver gives for the
\* diameters now in the form
DerivedFollowDiameters(f) ==
  \/ f.sheathThickness = EmptyText /\ f.sheathAreaGiven = EmptyText
  \/ \E g \in {updateSheathGeometry(f)} :
        /\ f.sheathThickness = g.sheathThickness
        /\ f.sheathAreaGiven = g.sheathAreaGiven

\* the bundle a sheath submission stores carries the thickness and the area
\* the resolver gives for the Do and Di of that submission
SubmissionFollowsDiameters(f) ==
  \A o \in {sheathFormSubmit(f, null, FALSE, NoResult)} :
    o.data # null =>
      \E g \in {updateSheathGeometry(f)} :
        /\ o.data.thickness = g.sheathThickness
        /\ o.data.sheath_area = g.sheathAreaGiven

\* C14: after any sequence of diameter input events and extraction responses
\* the derived thickness and area are both cleared or are the resolver's result
\* for the current diameters, so a sheath submission uses the thickness and
\* area of the Do and Di it reads
C14_DerivedFollowDiameters ==
  /\ DerivedFollowDiameters(form)
  /\ SubmissionFollowsDiameters(form)

\* a response with both diameters was applied and the resolver ran on them
C14_WitnessResolved ==
  /\ ran = "extractResponse"
  /\ form.sheathOuterD = Num(5)
  /\ form.sheathInnerD = Num(2)
  /\ form.sheathThickness = ToFixed(Dec(15, 1), 3)
  /\ DerivedFollowDiameters(form)

(***************************************************************************)
(* The flags of the two diameter inputs                                    *)
(***************************************************************************)
Flagged(f) == f.borderOuterD = "red" /\ f.borderInnerD = "red"
Unflagged(f) == f.borderOuterD = "" /\ f.borderInnerD = ""

\* both diameters are positive numbers
BothPositive(f) ==
  /\ IsFin(parseFloat(f.sheathOuterD)) /\ IsFin(parseFloat(f.sheathInnerD))
  /\ Units(parseFloat(f.sheathOuterD), 4) > 0
  /\ Units(parseFloat(f.sheathInnerD), 4) > 0

\* C15 as stated: whenever Do > Di > 0 does not hold (Do <= Di, a diameter that
\* is not positive, a diameter that is no number) the resolver clears the two
\* derived fields and flags both diameter inputs; when Do > Di > 0 neither
\* input is flagged
C15_FlagsWheneverUnresolved ==
  IF Resolvable(form)
  THEN Unflagged(form)
  ELSE DerivedFieldsCleared(form) /\ Flagged(form)

\* C15, amended: whenever Do > Di > 0 does not hold the resolver clears the
\* two derived fields; it flags both diameter inputs only when both diameters
\* are positive numbers with Do <= Di, and flags neither when a diameter is
\* empty, no number or not positive; when Do > Di > 0 neither input is flagged
C15_FlagsOrderedPairOnly ==
  IF Resolvable(form)
  THEN Unflagged(form)
  ELSE /\ DerivedFieldsCleared(form)
       /\ IF BothPositive(form) THEN Flagged(form) ELSE Unflagged(form)

\* an edit made Do <= Di on two positive diameters: both inputs are flagged
C15_Witness ==
  /\ ran = "updateSheathGeometry" /\ edits > 0
  /\ form.sheathOuterD = Num(2) /\ form.sheathInnerD = Num(3)
  /\ Flagged(form)

\* an edit left a negative outer diameter: cleared, and no input is flagged
C15_WitnessUnflagged ==
  /\ ran = "updateSheathGeometry" /\ edits > 0
  /\ form.sheathOuterD = Num(-1) /\ form.sheathInnerD = Num(2)
  /\ DerivedFieldsCleared(form) /\ Unflagged(form)

(***************************************************************************)
(* Report requests in flight                                               *)
(***************************************************************************)
\* request r is a snapshot of its stage's bundle as it is in this state
SnapshotOfBundle(r) ==
  \/ /\ r.endpoint = "/api/generate_conductor_pdf"
     /\ conductorData # null
     /\ r.body = JSONstringifyConductor(conductorData)
  \/ /\ r.endpoint = "/api/generate_sheath_pdf"
     /\ sheathData # null
     /\ r.body = JSONstringifySheath(sheathData)

\* one request was sent in this step, behind the ones in flight
OneSent ==
  /\ Len(requests') = Len(requests) + 1
  /\ \A j \in 1 .. Len(requests) : requests'[j] = requests[j]
  /\ SnapshotOfBundle(requests'[Len(requests')])

\* one request completed in this step and the others stay in flight
OneCompleted ==
  /\ Len(requests') = Len(requests) - 1
  /\ \E i \in 1 .. Len(requests) :
        \A j \in 1 .. Len(requests') : requests'[j] = requests[IF j < i THEN j ELSE j + 1]

\* C16: the body of a report request is the snapshot of the stage's bundle
\* taken at the download click; whatever the interleaving of clicks,
\* submissions and completions, a request in flight keeps the body it was
\* sent with, a submission changes no request, and every request in flight
\* can complete, with success or with an error, whatever the others do
C16_RequestsAreSnapshots ==
  /\ [][/\ requests' = requests \/ OneSent \/ OneCompleted
        /\ ran' \in {"conductorForm", "sheathForm"} => requests' = requests
        /\ ran' \in {"btnDownloadConductor", "btnDownloadSheath"} =>
             requests' = requests \/ OneSent
        /\ ran' = "reportResponse" => OneCompleted]_vars
  /\ [](\A i \in 1 .. Len(requests) :
          /\ ENABLED ReportResponse(i, TRUE)
          /\ ENABLED ReportResponse(i, FALSE))

\* two requests of the conductor stage are in flight with different bodies:
\* the bundle was replaced between the two clicks, and the first request still
\* carries the bundle of its own click
C16_Witness ==
  /\ Len(requests) = 2
  /\ requests[1].endpoint = "/api/generate_conductor_pdf"
  /\ requests[2].endpoint = "/api/generate_conductor_pdf"
  /\ requests[1].body # requests[2].body
  /\ requests[2].body = JSONstringifyConductor(conductorData)

\* the second of two requests completed first
C16_WitnessOutOfOrder ==
  /\ ran = "reportResponse"
  /\ Len(requests) = 1
  /\ requests[1].endpoint = "/api/generate_conductor_pdf"
  /\ requests[1].body # JSONstringifyConductor(conductorData)
  /\ Raised("Sheath report downloaded!")

(***************************************************************************)
(* The two bundles                                                         *)
(***************************************************************************)
FailureMessages ==
  GuardMessages \cup
  {"Invalid temperature / beta combination.", "Calculated conductor area is not valid.",
   "Could not calculate adiabatic sheath area.", "Could not calculate M factor.",
   "Could not calculate epsilon factor."}

\* the handler ran in this step and raised no failure
Submitted(handler) ==
  /\ ran' = handler
  /\ \A i \in 1 .. Len(notifications') : notifications'[i].message \notin FailureMessages

ConductorStageUnchanged ==
  conductorData' = conductorData /\ conductorCalculated' = conductorCalculated

\* d holds the twelve fields of a conductor bundle, read from the form f
ConductorBundleOfForm(d, f) ==
  /\ DOMAIN d = {"voltage", "area", "material", "insulation", "outer_sheath",
                 "scc_required", "time", "theta_i", "theta_f", "beta", "k_value", "i_ad"}
  /\ d.voltage = parseFloat(f.voltageKv)
  /\ d.scc_required = parseFloat(f.sccKa)
  /\ d.time = parseFloat(f.timeSec)
  /\ d.beta = parseFloat(f.beta)
  /\ d.k_value = parseFloat(f.kValue)
  /\ d.material = f.material
  /\ d.insulation = f.insulationMaterial
  /\ d.outer_sheath = f.outerSheathMaterial
  /\ f.givenConductorArea # EmptyText => d.area = parseFloat(f.givenConductorArea)
  /\ d = conductorFormSubmit(f, null, FALSE, NoResult).data

\* d holds the fields of a sheath bundle, read from the form f
SheathBundleOfForm(d, f) ==
  /\ d # null
  /\ d.voltage = parseFloat(f.sheathVoltageKv)
  /\ d.scc_required = parseFloat(f.sheathSccKa)
  /\ d.time = parseFloat(f.sheathTimeSec)
  /\ d.theta_i = parseFloat(f.sheathThetaInitial)
  /\ d.theta_f = parseFloat(f.sheathThetaFinal)
  /\ d.material = f.material
  /\ d.insulation = f.insulationMaterial
  /\ d.outer_sheath = f.outerSheathMaterial
  /\ d.thickness = ToFixed(parseFloat(f.sheathThickness), 3)
  /\ d.sheath_area = ToFixed(parseFloat(f.sheathAreaGiven), 2)
  /\ d = sheathFormSubmit(f, null, FALSE, NoResult).data

\* C17: a conductor submission, successful or not, leaves sheathData and
\* sheathCalculated as they were, and a sheath submission leaves conductorData
\* and conductorCalculated as they were; a successful submission sets its flag
\* and replaces its bundle by one whose fields all come from the form of that
\* submission, whatever the two bundles were before
C17_BundlesIndependent ==
  [][/\ ran' = "conductorForm" => SheathStageUnchanged
     /\ ran' = "sheathForm" => ConductorStageUnchanged
     /\ Submitted("conductorForm") =>
          conductorCalculated' /\ ConductorBundleOfForm(conductorData', form)
     /\ Submitted("sheathForm") =>
          sheathCalculated' /\ SheathBundleOfForm(sheathData', form)]_vars

\* a sheath submission succeeded while conductorData is still null
C17_Witness ==
  /\ ran = "sheathForm"
  /\ sheathData # null /\ sheathCalculated
  /\ conductorData = null /\ ~conductorCalculated

\* a conductor submission failed on a page that holds a sheath bundle
C17_WitnessFailed ==
  /\ ran = "conductorForm"
  /\ RaisedType("error") \/ RaisedType("warning")
  /\ conductorData = null
  /\ sheathData # null

(***************************************************************************)
(* The M factor and the thermal constants                                  *)
(***************************************************************************)
\* the constants of a table material at a voltage given in hundredths of a kV:
\* <<rho in tenths, sigma in 1e5>>
ExpectedConstants(materialType, name, voltage) ==
  IF materialType = "insulating"
  THEN CASE name \in {"PE", "XLPE"} -> <<35, 24>>
         [] name = "impregnated-paper-solid" -> <<60, 20>>
         [] name = "oil" -> <<70, 17>>
         [] name = "PVC" -> (IF voltage <= 300 THEN <<50, 17>> ELSE <<60, 17>>)
         [] name = "EPR" -> (IF voltage <= 300 THEN <<35, 20>> ELSE <<50, 20>>)
         [] OTHER -> <<50, 20>>
  ELSE CASE name \in {"compounded-jute", "rubber-sandwich"} -> <<60, 20>>
         [] name = "polychloroprene" -> <<55, 20>>
         [] name = "PVC" -> (IF voltage <= 3500 THEN <<50, 17>> ELSE <<60, 17>>)
         [] name = "PVC-bitumen" -> <<60, 17>>
         [] OTHER -> <<35, 24>>

\* c is the pair of constants expected for the material at the form's voltage
ConstantsAsExpected(c, materialType, name, f) ==
  /\ c # null
  /\ <<Units(c.rho, 1), Units(c.sigma, -5)>> =
       ExpectedConstants(materialType, name, Units(parseFloat(f.sheathVoltageKv), 2))

\* the whole part of sqrt(sigma / rho)
RootOf(c) == CHOOSE r \in 0 .. 2000 : r * r <= (c[2] * 1000000) \div c[1]
                                      /\ (c[2] * 1000000) \div c[1] < (r + 1) * (r + 1)

\* 0.7 * (sqrt(sigma2 / rho2) + sqrt(sigma3 / rho3)) / (2 * sigma1 * delta * 1e-3)
\* in ten-thousandths, for a thickness in thousandths of a mm
ExpectedM(f) ==
  LET voltage == Units(parseFloat(f.sheathVoltageKv), 2)
      roots == RootOf(ExpectedConstants("insulating", f.insulationMaterial, voltage))
               + RootOf(ExpectedConstants("protective", f.outerSheathMaterial, voltage))
      sigma1 == Units(TABLE_I_SHEATHS(toLowerCase(f.sheathMaterial)).sigmaC, -4)
  IN (70 * roots * 10000) \div (2 * sigma1 * Units(parseFloat(f.sheathThickness), 3))

MOf(f) ==
  calculateM(f.insulationMaterial, f.outerSheathMaterial, parseFloat(f.sheathThickness),
             toLowerCase(f.sheathMaterial), parseFloat(f.sheathVoltageKv), "no")

\* C18: the M factor has no result whenever the insulation, the outer covering
\* or the sheath metal is not in its table or the denominator is zero, and is
\* the formula's value with F = 0.7 otherwise; the constants of a table
\* material are those of its name, with PVC and EPR insulation in the <= 3 kV
\* tier up to 3 kV and in the > 3 kV tier above, and the PVC covering in the
\* <= 35 kV tier up to 35 kV and in the > 35 kV tier above; a stored bundle
\* carries these constants and F = 0.7
C18_MFactorAndConstants ==
  /\ form.insulationMaterial \in InsulatingNames =>
       ConstantsAsExpected(
         getThermalConstants("insulating", form.insulationMaterial,
                             parseFloat(form.sheathVoltageKv)),
         "insulating", form.insulationMaterial, form)
  /\ form.insulationMaterial \notin InsulatingNames =>
       getThermalConstants("insulating", form.insulationMaterial,
                           parseFloat(form.sheathVoltageKv)) = null
  /\ form.outerSheathMaterial \in ProtectiveNames =>
       ConstantsAsExpected(
         getThermalConstants("protective", form.outerSheathMaterial,
                             parseFloat(form.sheathVoltageKv)),
         "protective", form.outerSheathMaterial, form)
  /\ form.outerSheathMaterial \notin ProtectiveNames =>
       getThermalConstants("protective", form.outerSheathMaterial,
                           parseFloat(form.sheathVoltageKv)) = null
  /\ \A M \in {MOf(form)} :
       IF MNoResult(form) THEN M = null
       ELSE /\ IsFin(M)
            /\ Abs(Units(M, 4) - ExpectedM(form)) * 200 <= ExpectedM(form) + 200
  /\ (ran = "sheathForm" /\ sheathData # null) =>
       /\ ~MNoResult(form)
       /\ sheathData.f_factor = Dec(7, 1)
       /\ sheathData.m_factor = ToFixed(MOf(form), 3)
       /\ <<Units(sheathData.rho2, 1), Units(sheathData.sigma2, -5)>> =
            ExpectedConstants("insulating", form.insulationMaterial,
                              Units(parseFloat(form.sheathVoltageKv), 2))
       /\ <<Units(sheathData.rho3, 1), Units(sheathData.sigma3, -5)>> =
            ExpectedConstants("protective", form.outerSheathMaterial,
                              Units(parseFloat(form.sheathVoltageKv), 2))

\* a sheath submission at exactly 3 kV with PVC insulation and PVC covering
\* stored the <= 3 kV and <= 35 kV constants
C18_Witness ==
  /\ ran = "sheathForm"
  /\ sheathData # null
  /\ form.insulationMaterial = "PVC"
  /\ form.outerSheathMaterial = "PVC"
  /\ form.sheathVoltageKv = Num(3)
  /\ sheathData.rho2 = Num(5)
  /\ sheathData.rho3 = Num(5)

\* a sheath submission stopped at the M factor: covering not in the table
C18_WitnessNoResult ==
  /\ ran = "sheathForm"
  /\ form.outerSheathMaterial = "XLPE"
  /\ notifications = <<Note("Could not calculate M factor.", "error")>>

====
